---- MODULE Spec2Model ----
(***************************************************************************)
(* Transaction reconciliation: processTransactionsForCategorization and    *)
(* POST /categorize over the tables transaction_categorizations and        *)
(* manual_review_transactions; GET and POST /transactions, which fetch     *)
(* the banks' transactions and call ingestion; POST /budgets; and          *)
(* POST /register.                                                         *)
(*                                                                         *)
(* Strings the code manipulates character by character (category codes    *)
(* and display categories) are sequences of one-character strings.         *)
(* Every await of the handlers is a point where other requests and the     *)
(* database may take steps.                                                *)
(***************************************************************************)
EXTENDS Bags, FiniteSets, Integers, Sequences, TLC

\* ------------------------------------------------------------------ bounds

\* Longest transaction batch handed to one ingestion call.
MaxBatch == 2

\* Requests served one after the other in one behaviour.
MaxCalls == 3

\* Database statements and provider calls that fail for an external reason in
\* one behaviour.
MaxFaults == 1

\* Rows POST /exchange_public_token may try to insert in one behaviour.
MaxLinks == 2

\* ----------------------------------------------------------- JS strings

UpperLetters ==
  <<"A","B","C","D","E","F","G","H","I","J","K","L","M",
    "N","O","P","Q","R","S","T","U","V","W","X","Y","Z">>

LowerLetters ==
  <<"a","b","c","d","e","f","g","h","i","j","k","l","m",
    "n","o","p","q","r","s","t","u","v","w","x","y","z">>

\* String.prototype.toLowerCase on one character.
toLowerCaseChar(c) ==
  IF \E i \in DOMAIN UpperLetters : UpperLetters[i] = c
    THEN LowerLetters[CHOOSE i \in DOMAIN UpperLetters : UpperLetters[i] = c]
    ELSE c

\* String.prototype.toUpperCase on one character.
toUpperCaseChar(c) ==
  IF \E i \in DOMAIN LowerLetters : LowerLetters[i] = c
    THEN UpperLetters[CHOOSE i \in DOMAIN LowerLetters : LowerLetters[i] = c]
    ELSE c

\* s.replace(/_/g, ' ')
replaceUnderscores(s) == [i \in DOMAIN s |-> IF s[i] = "_" THEN " " ELSE s[i]]

\* s.toLowerCase()
toLowerCase(s) == [i \in DOMAIN s |-> toLowerCaseChar(s[i])]

\* s.split(' '): the words between spaces, empty words kept.
RECURSIVE splitFrom(_, _, _)
splitFrom(s, i, word) ==
  IF i > Len(s) THEN <<word>>
  ELSE IF s[i] = " " THEN <<word>> \o splitFrom(s, i + 1, <<>>)
  ELSE splitFrom(s, i + 1, Append(word, s[i]))

split(s) == splitFrom(s, 1, <<>>)

\* A mapping that leaves the word as it is.
capitalize_AsIs(word) == word

\* word.charAt(0).toUpperCase() + word.slice(1)
capitalize(word) ==
  IF Len(word) = 0 THEN <<>> ELSE <<toUpperCaseChar(word[1])>> \o Tail(word)

\* words.join(' ')
RECURSIVE join(_)
join(words) ==
  IF Len(words) = 0 THEN <<>>
  ELSE IF Len(words) = 1 THEN words[1]
  ELSE words[1] \o <<" ">> \o join(Tail(words))

\* The display category of lines 216-219.
cleanCategory(plaidCategory) ==
  LET words == split(toLowerCase(replaceUnderscores(plaidCategory)))
  IN  join([i \in DOMAIN words |-> capitalize(words[i])])

\* ------------------------------------------------------------ rule table

AUTO_CATEGORIZE_PLAID_CATEGORIES ==
  << <<"I","N","C","O","M","E">>,
     <<"P","A","Y","R","O","L","L">>,
     <<"D","E","P","O","S","I","T">>,
     <<"T","R","A","N","S","F","E","R","_","I","N">>,
     <<"T","R","A","N","S","F","E","R","_","O","U","T">>,
     <<"B","A","N","K","_","F","E","E","S">>,
     <<"A","T","M","_","F","E","E","S">>,
     <<"I","N","T","E","R","E","S","T","_","E","A","R","N","E","D">>,
     <<"I","N","T","E","R","E","S","T","_","C","H","A","R","G","E","D">>,
     <<"L","O","A","N","_","P","A","Y","M","E","N","T","S">>,
     <<"C","R","E","D","I","T","_","C","A","R","D","_","P","A","Y","M","E","N","T">>,
     <<"I","N","S","U","R","A","N","C","E">>,
     <<"T","A","X","E","S">>,
     <<"U","T","I","L","I","T","I","E","S">>,
     <<"R","E","N","T","_","A","N","D","_","U","T","I","L","I","T","I","E","S">>,
     <<"M","O","R","T","G","A","G","E","_","A","N","D","_","R","E","N","T">> >>

\* Array.prototype.includes
includes(array, x) == \E i \in DOMAIN array : array[i] = x

\* --------------------------------------------------------- JS values

\* An optional string: undefined, or a string.
Undefined == [defined |-> FALSE, value |-> <<>>]

Defined(s) == [defined |-> TRUE, value |-> s]

\* Truthiness of an optional string: undefined and "" are falsy.
Truthy(v) == v.defined /\ Len(v.value) > 0

\* A transaction_id the provider record does not carry; the driver sends NULL.
NULL == "NULL"

\* JSON.stringify(value): the stored text of the value.
JSON_stringify(value) == [json |-> value]

\* -------------------------------------------------- provider transactions

TRANSFER_IN == <<"T","R","A","N","S","F","E","R","_","I","N">>

ATM_FEES == <<"A","T","M","_","F","E","E","S">>

FOOD_AND_DRINK == <<"F","O","O","D","_","A","N","D","_","D","R","I","N","K">>

\* The provider's records for the linked accounts, in the provider's order: a
\* transaction_id names one immutable record, and one record lacks its id.
\* personal_finance_category is the value of personal_finance_category?.primary.
ProviderRecords ==
  << [transaction_id |-> "T1", personal_finance_category |-> Defined(TRANSFER_IN)],
     [transaction_id |-> "T2", personal_finance_category |-> Defined(FOOD_AND_DRINK)],
     [transaction_id |-> "T3", personal_finance_category |-> Undefined],
     [transaction_id |-> NULL, personal_finance_category |-> Defined(ATM_FEES)] >>

Transactions == {ProviderRecords[i] : i \in DOMAIN ProviderRecords}

TransactionIds == {tx.transaction_id : tx \in Transactions} \ {NULL}

TransactionOf(id) == CHOOSE tx \in Transactions : tx.transaction_id = id

\* The user whose requests are followed, and another user of the same database.
Users == {"u1"}

OtherUser == "u2"

\* Categories a user assigns through POST /categorize.
UserCategories == { <<"G","r","o","c","e","r","i","e","s">>, <<"R","e","n","t">> }

\* The records of ProviderRecords at the indices S, in the provider's order.
RECURSIVE Fetch(_, _)
Fetch(S, i) ==
  IF i > Len(ProviderRecords) THEN <<>>
  ELSE IF i \in S THEN <<ProviderRecords[i]>> \o Fetch(S, i + 1)
  ELSE Fetch(S, i + 1)

\* What a fetch can hand to ingestion: at most MaxBatch of the provider's records.
Batches ==
  {Fetch(S, 1) : S \in {X \in SUBSET DOMAIN ProviderRecords : Cardinality(X) <= MaxBatch}}

\* ------------------------------------------------------------- database

\* Rows of a table (a bag of rows) that belong to a key.
RowsOf(table, user_id, transaction_id) ==
  {r \in BagToSet(table) : r.user_id = user_id /\ r.transaction_id = transaction_id}

\* Number of rows a table holds for a key.
RowCount(table, user_id, transaction_id) ==
  LET rows == RowsOf(table, user_id, transaction_id)
      RECURSIVE Sum(_)
      Sum(S) == IF S = {} THEN 0
                ELSE LET r == CHOOSE x \in S : TRUE
                     IN  CopiesIn(r, table) + Sum(S \ {r})
  IN  Sum(rows)

\* The lookup without its WHERE clause.
SelectTransactionIds_AnyUser(table, user_id) ==
  {r.transaction_id : r \in BagToSet(table)}

\* SELECT transaction_id FROM <table> WHERE user_id = $1, as a Set.
SelectTransactionIds(table, user_id) ==
  {r.transaction_id : r \in {x \in BagToSet(table) : x.user_id = user_id}}

\* The table without the rows of a key.
WithoutKey(table, user_id, transaction_id) ==
  LET keep == {r \in BagToSet(table) :
                 ~(r.user_id = user_id /\ r.transaction_id = transaction_id)}
  IN  [r \in keep |-> table[r]]

\* The insert with DO UPDATE in place of DO NOTHING.
InsertDoNothing_Overwrite(table, row) ==
  IF row.transaction_id = NULL
    THEN [ok |-> FALSE, table |-> table]
  ELSE [ok |-> TRUE,
        table |-> WithoutKey(table, row.user_id, row.transaction_id)
                    (+) SetToBag({row})]

\* The insert without its ON CONFLICT clause: the unique constraint refuses a
\* second row for the key with an error.
InsertDoNothing_NoConflictClause(table, row) ==
  IF row.transaction_id = NULL
    THEN [ok |-> FALSE, table |-> table]
  ELSE IF RowsOf(table, row.user_id, row.transaction_id) # {}
    THEN [ok |-> FALSE, table |-> table]
  ELSE [ok |-> TRUE, table |-> table (+) SetToBag({row})]

\* INSERT ... ON CONFLICT (user_id, transaction_id) DO NOTHING.
\* transaction_id is NOT NULL: a NULL is refused with an error.
InsertDoNothing(table, row) ==
  IF row.transaction_id = NULL
    THEN [ok |-> FALSE, table |-> table]
  ELSE IF RowsOf(table, row.user_id, row.transaction_id) # {}
    THEN [ok |-> TRUE, table |-> table]
  ELSE [ok |-> TRUE, table |-> table (+) SetToBag({row})]

\* INSERT ... ON CONFLICT (user_id, transaction_id) DO UPDATE SET ...
InsertDoUpdate(table, row) ==
  IF row.transaction_id = NULL
    THEN [ok |-> FALSE, table |-> table]
  ELSE [ok |-> TRUE,
        table |-> WithoutKey(table, row.user_id, row.transaction_id)
                    (+) SetToBag({row})]

\* A delete without the transaction_id in its WHERE clause.
DeleteKey_WholeUser(table, user_id, transaction_id) ==
  [ok |-> TRUE,
   table |-> LET keep == {r \in BagToSet(table) : r.user_id # user_id}
             IN  [r \in keep |-> table[r]]]

\* A delete that matches no row.
DeleteKey_NoRow(table, user_id, transaction_id) == [ok |-> TRUE, table |-> table]

\* DELETE FROM <table> WHERE user_id = $1 AND transaction_id = $2
DeleteKey(table, user_id, transaction_id) ==
  [ok |-> TRUE, table |-> WithoutKey(table, user_id, transaction_id)]

\* ---------------------------------------------------------------- state

\* Request slots: a slot holds the request it is serving, or the last it served.
Slots == {1, 2}

VARIABLES
  transaction_categorizations,  \* bag of rows [user_id, transaction_id, category, plaid_data]
  manual_review_transactions,   \* bag of rows [user_id, transaction_id, transaction_data]
  calls,                        \* slot -> the handler's local state
  previous,                     \* the request slot 1 served before its current one
  started,                      \* requests started so far
  faults,                       \* statements that failed for an external reason
  user_banks,                   \* set of rows [id, user_id, item_id, access_token]
  request,                      \* the /transactions handler's local state
  budgets,                      \* [exists, rows]: the budgets table, rows a bag
  applied,                      \* per budget key, the last upsert the database applied
  saves,                        \* slot -> the POST /budgets handler's local state
  users,                        \* [unique, rows]: the users table, rows a bag
  registrations,                \* slot -> the POST /register handler's local state
  user_banks_id_seq,            \* the sequence behind user_banks.id: its next value
  connected_banks,              \* [exists, rows]: the table GET /liabilities reads
  link,                         \* the handler that links or unlinks a bank
  retrieval                     \* the /accounts, /holdings or /liabilities handler

\* The variables of ingestion and explicit categorization.
reconcileVars == <<transaction_categorizations, manual_review_transactions, calls,
                   previous, started, faults>>

\* The variables of GET and POST /transactions.
routeVars == <<user_banks, request>>

\* The variables of POST /budgets.
budgetVars == <<budgets, applied, saves>>

\* The variables of POST /register.
authVars == <<users, registrations>>

\* The variables of bank linking and of the retrievals that read the banks.
bankVars == <<user_banks_id_seq, connected_banks, link, retrieval>>

vars == <<reconcileVars, routeVars, budgetVars, authVars, bankVars>>

\* What ingestion and explicit categorization leave alone.
outsideReconcile == <<routeVars, budgetVars, authVars, bankVars>>

\* What the /transactions handlers leave alone besides the tables.
outsideRoute == <<budgetVars, authVars, bankVars>>

\* What POST /budgets leaves alone.
outsideBudgets ==
  <<transaction_categorizations, manual_review_transactions, calls, previous,
    routeVars, authVars, bankVars>>

\* What POST /register leaves alone.
outsideAuth ==
  <<transaction_categorizations, manual_review_transactions, calls, previous,
    routeVars, budgetVars, bankVars>>

\* What the bank handlers leave alone besides the banks and the fault count.
outsideBanks ==
  <<transaction_categorizations, manual_review_transactions, calls, previous,
    started, request, budgetVars, authVars>>

\* The two tables, as one value.
Tables == [categorizations |-> transaction_categorizations,
           manual_review   |-> manual_review_transactions]

NoTables == [categorizations |-> EmptyBag, manual_review |-> EmptyBag]

\* A slot that has served nothing yet. before is the tables when the request
\* arrived; thrownAt is the await that threw.
NoCall ==
  [kind |-> "none", pc |-> "idle", thrownAt |-> "nowhere",
   user_id |-> "u1", transactions |-> <<>>,
   categorizedIds |-> {}, manualReviewIds |-> {},
   autoCategorizationPromises |-> {}, manualReviewTransactions |-> {},
   issued |-> {}, pending |-> {}, rejected |-> {},
   autoCount |-> 0, manualCount |-> 0,
   transaction_id |-> NULL, category |-> <<>>,
   before |-> NoTables]

\* What is remembered of a request once its slot serves the next one;
\* pendingBefore are the user's manual-review ids when the request arrived.
Summary(c) ==
  [kind |-> c.kind, pc |-> c.pc, user_id |-> c.user_id,
   transactions |-> c.transactions,
   autoCount |-> c.autoCount, manualCount |-> c.manualCount,
   transaction_id |-> c.transaction_id, category |-> c.category,
   pendingBefore |-> {r.transaction_id :
      r \in {x \in BagToSet(c.before.manual_review) : x.user_id = c.user_id}}]

\* The handler has answered (or thrown) and none of its statements is in flight.
Finished(c) == c.pc \in {"idle", "returned", "threw"} /\ c.pending = {}

\* No request in flight: the steady state.
Quiescent == \A p \in Slots : Finished(calls[p])

\* A rejection that is noted and does not leave the function.
Throw_Continue(c) == [c EXCEPT !.thrownAt = c.pc]

\* An await rejects: the exception leaves the function.
Throw(c) == [c EXCEPT !.pc = "threw", !.thrownAt = c.pc]

\* ------------------------------------------------- ingestion (lines 186-258)

\* A test that takes any category the provider gives as a rule match.
IsAutoCategorizable_AnyCategory(tx) == Truthy(tx.personal_finance_category)

\* personal_finance_category?.primary is truthy and in the rule table (line 214).
IsAutoCategorizable(tx) ==
  /\ Truthy(tx.personal_finance_category)
  /\ includes(AUTO_CATEGORIZE_PLAID_CATEGORIES, tx.personal_finance_category.value)

\* A filter that forgets the manual-review ids.
PassesDedup_CategorizedOnly(tx, categorizedIds, manualReviewIds) ==
  ~(tx.transaction_id \in categorizedIds)

\* A filter that forgets the categorized ids.
PassesDedup_ManualOnly(tx, categorizedIds, manualReviewIds) ==
  ~(tx.transaction_id \in manualReviewIds)

\* Line 208: the transaction is neither categorized nor in manual review.
PassesDedup(tx, categorizedIds, manualReviewIds) ==
  ~(tx.transaction_id \in categorizedIds \/ tx.transaction_id \in manualReviewIds)

\* The row of lines 222-226.
CategorizationRow(user_id, tx) ==
  [user_id |-> user_id, transaction_id |-> tx.transaction_id,
   category |-> cleanCategory(tx.personal_finance_category.value),
   plaid_data |-> JSON_stringify(tx)]

\* The row of lines 243-247.
ManualReviewRow(user_id, tx) ==
  [user_id |-> user_id, transaction_id |-> tx.transaction_id,
   transaction_data |-> JSON_stringify(tx)]

\* The row of lines 446-459.
UserCategorizationRow(user_id, transaction_id, category, plaid_data) ==
  [user_id |-> user_id, transaction_id |-> transaction_id,
   category |-> category, plaid_data |-> JSON_stringify(plaid_data)]

\* A return that counts every record not auto-categorized as manual review.
Returned_CountsRest(c) ==
  [c EXCEPT !.pc = "returned",
            !.autoCount = Cardinality(c.autoCategorizationPromises),
            !.manualCount = Len(c.transactions) - Cardinality(c.autoCategorizationPromises)]

\* Lines 254-257: the value returned.
Returned(c) ==
  [c EXCEPT !.pc = "returned",
            !.autoCount = Cardinality(c.autoCategorizationPromises),
            !.manualCount = Cardinality(c.manualReviewTransactions)]

\* Lines 241-252, up to the await: the manual-review inserts are dispatched.
DispatchManualReview(c) ==
  IF c.manualReviewTransactions # {}
    THEN [c EXCEPT !.pc = "awaitManual",
                   !.issued = c.issued \cup c.manualReviewTransactions,
                   !.pending = c.pending \cup c.manualReviewTransactions]
    ELSE Returned(c)

\* Lines 206-239, up to the await: the loop dispatches one insert per
\* auto-categorizable transaction and collects the others.
ClassifyBatch(c) ==
  LET passed == {i \in DOMAIN c.transactions :
                   PassesDedup(c.transactions[i], c.categorizedIds, c.manualReviewIds)}
      auto   == {i \in passed : IsAutoCategorizable(c.transactions[i])}
      d      == [c EXCEPT !.autoCategorizationPromises = auto,
                          !.manualReviewTransactions = passed \ auto]
  IN  IF auto # {}
        THEN [d EXCEPT !.pc = "awaitAuto", !.issued = auto, !.pending = auto]
        ELSE DispatchManualReview(d)

NewCall(kind, user_id) ==
  [NoCall EXCEPT !.kind = kind, !.user_id = user_id, !.before = Tables]

\* The call up to its first await: an empty batch returns at once (line 187).
IngestCall(user_id, transactions) ==
  LET c == [NewCall("ingest", user_id) EXCEPT !.transactions = transactions]
  IN  IF Len(transactions) = 0
        THEN [c EXCEPT !.pc = "returned"]
        ELSE [c EXCEPT !.pc = "lookupCategorizations"]

\* processTransactionsForCategorization(transactions, userId) is called (line 187).
IngestStart(p, user_id, transactions) ==
  /\ Finished(calls[p])
  /\ calls' = [calls EXCEPT ![p] = IngestCall(user_id, transactions)]
  /\ started' = started + 1
  /\ UNCHANGED <<transaction_categorizations, manual_review_transactions, faults>>
  /\ UNCHANGED outsideReconcile

\* Lines 193-197: the first lookup answers.
LookupCategorizations(p) ==
  /\ calls[p].kind = "ingest" /\ calls[p].pc = "lookupCategorizations"
  /\ calls' = [calls EXCEPT ![p] =
       [calls[p] EXCEPT !.pc = "lookupManualReview",
          !.categorizedIds =
            SelectTransactionIds(transaction_categorizations, calls[p].user_id)]]
  /\ UNCHANGED <<transaction_categorizations, manual_review_transactions,
                 previous, started, faults>>
  /\ UNCHANGED outsideReconcile

\* Lines 200-232: the second lookup answers and the loop runs.
LookupManualReview(p) ==
  /\ calls[p].kind = "ingest" /\ calls[p].pc = "lookupManualReview"
  /\ calls' = [calls EXCEPT ![p] =
       ClassifyBatch([calls[p] EXCEPT !.manualReviewIds =
           SelectTransactionIds(manual_review_transactions, calls[p].user_id)])]
  /\ UNCHANGED <<transaction_categorizations, manual_review_transactions,
                 previous, started, faults>>
  /\ UNCHANGED outsideReconcile

\* A lookup query fails: the await throws out of the function.
LookupFails(p) ==
  /\ faults < MaxFaults
  /\ calls[p].kind = "ingest"
  /\ calls[p].pc \in {"lookupCategorizations", "lookupManualReview"}
  /\ calls' = [calls EXCEPT ![p] = Throw(calls[p])]
  /\ faults' = faults + 1
  /\ UNCHANGED <<transaction_categorizations, manual_review_transactions,
                 previous, started>>
  /\ UNCHANGED outsideReconcile

\* Promise.all over the inserts of the partition being awaited, after insert i
\* settled: it rejects on the first rejection and resolves when all resolved.
\* An insert that settles after the function threw changes nothing in it.
AfterSettle(c, i, ok) ==
  LET d == [c EXCEPT !.pending = c.pending \ {i},
                     !.rejected = IF ok THEN c.rejected ELSE c.rejected \cup {i}]
  IN  IF c.pc \notin {"awaitAuto", "awaitManual"} THEN d
      ELSE IF ~ok THEN Throw(d)
      ELSE IF d.pending # {} THEN d
      ELSE IF c.pc = "awaitAuto" THEN DispatchManualReview(d)
      ELSE Returned(d)

\* The database runs the dispatched insert for transactions[i] of slot p.
RunInsert(p, i) ==
  LET c  == calls[p]
      tx == c.transactions[i]
  IN  /\ c.kind = "ingest" /\ i \in c.pending
      /\ IF i \in c.autoCategorizationPromises
           THEN LET r == InsertDoNothing(transaction_categorizations,
                                         CategorizationRow(c.user_id, tx))
                IN  /\ transaction_categorizations' = r.table
                    /\ UNCHANGED manual_review_transactions
                    /\ calls' = [calls EXCEPT ![p] = AfterSettle(c, i, r.ok)]
           ELSE LET r == InsertDoNothing(manual_review_transactions,
                                         ManualReviewRow(c.user_id, tx))
                IN  /\ manual_review_transactions' = r.table
                    /\ UNCHANGED transaction_categorizations
                    /\ calls' = [calls EXCEPT ![p] = AfterSettle(c, i, r.ok)]
      /\ UNCHANGED <<previous, started, faults>>
      /\ UNCHANGED outsideReconcile

\* The dispatched insert for transactions[i] fails for an external reason.
InsertFails(p, i) ==
  /\ faults < MaxFaults
  /\ calls[p].kind = "ingest" /\ i \in calls[p].pending
  /\ calls' = [calls EXCEPT ![p] = AfterSettle(calls[p], i, FALSE)]
  /\ faults' = faults + 1
  /\ UNCHANGED <<transaction_categorizations, manual_review_transactions,
                 previous, started>>
  /\ UNCHANGED outsideReconcile

\* The inserts of the rows R, one after the other.
RECURSIVE InsertAll(_, _)
InsertAll(table, R) ==
  IF R = {} THEN [ok |-> TRUE, table |-> table]
  ELSE LET row  == CHOOSE x \in R : TRUE
           r    == InsertDoNothing(table, row)
           rest == InsertAll(r.table, R \ {row})
       IN  [ok |-> r.ok /\ rest.ok, table |-> rest.table]

\* The tables after processTransactionsForCategorization(transactions, userId)
\* ran from start to end with no other request in between; ok tells whether it
\* returned. The manual-review inserts are issued only if no other insert failed.
IngestAlone(tables, user_id, transactions) ==
  LET c == ClassifyBatch(
             [NoCall EXCEPT !.kind = "ingest", !.user_id = user_id,
                !.transactions = transactions,
                !.categorizedIds = SelectTransactionIds(tables.categorizations, user_id),
                !.manualReviewIds = SelectTransactionIds(tables.manual_review, user_id)])
      a == InsertAll(tables.categorizations,
             {CategorizationRow(user_id, transactions[i]) :
                i \in c.autoCategorizationPromises})
      m == IF a.ok
             THEN InsertAll(tables.manual_review,
                    {ManualReviewRow(user_id, transactions[i]) :
                       i \in c.manualReviewTransactions})
             ELSE [ok |-> FALSE, table |-> tables.manual_review]
  IN  [ok |-> a.ok /\ m.ok,
       tables |-> [categorizations |-> a.table, manual_review |-> m.table]]

\* ------------------------------------------- POST /categorize (lines 441-477)

\* The request arrives; plaid_data is the provider record the client shows.
CategorizeStart(p, user_id, transaction_id, category) ==
  /\ Finished(calls[p])
  /\ calls' = [calls EXCEPT ![p] =
       [NewCall("categorize", user_id) EXCEPT !.pc = "upsert",
          !.transaction_id = transaction_id, !.category = category]]
  /\ started' = started + 1
  /\ UNCHANGED <<transaction_categorizations, manual_review_transactions, faults>>
  /\ UNCHANGED outsideReconcile

\* Lines 446-459: the overwriting upsert.
CategorizeUpsert(p) ==
  LET c == calls[p]
      r == InsertDoUpdate(transaction_categorizations,
             UserCategorizationRow(c.user_id, c.transaction_id, c.category,
                                   TransactionOf(c.transaction_id)))
  IN  /\ c.kind = "categorize" /\ c.pc = "upsert"
      /\ transaction_categorizations' = r.table
      /\ calls' = [calls EXCEPT ![p] =
                     IF r.ok THEN [c EXCEPT !.pc = "delete"] ELSE Throw(c)]
      /\ UNCHANGED <<manual_review_transactions, previous, started, faults>>
      /\ UNCHANGED outsideReconcile

\* Lines 461-472: the manual-review row is deleted and the handler answers.
CategorizeDelete(p) ==
  LET c == calls[p]
      r == DeleteKey(manual_review_transactions, c.user_id, c.transaction_id)
  IN  /\ c.kind = "categorize" /\ c.pc = "delete"
      /\ manual_review_transactions' = r.table
      /\ calls' = [calls EXCEPT ![p] = [c EXCEPT !.pc = "returned"]]
      /\ UNCHANGED <<transaction_categorizations, previous, started, faults>>
      /\ UNCHANGED outsideReconcile

\* Either statement of the handler fails: the catch answers 500 (lines 473-476).
CategorizeFails(p) ==
  /\ faults < MaxFaults
  /\ calls[p].kind = "categorize" /\ calls[p].pc \in {"upsert", "delete"}
  /\ calls' = [calls EXCEPT ![p] = Throw(calls[p])]
  /\ faults' = faults + 1
  /\ UNCHANGED <<transaction_categorizations, manual_review_transactions,
                 previous, started>>
  /\ UNCHANGED outsideReconcile

\* ------------------------- GET and POST /transactions (lines 261-386)

\* The provider's records of a linked bank, by access token.
BankRecords(access_token) ==
  IF access_token = "b1"
    THEN <<ProviderRecords[1], ProviderRecords[2]>>
    ELSE <<ProviderRecords[3]>>

\* The provider's accounts of a linked bank.
BankAccounts(access_token) ==
  IF access_token = "b1" THEN <<"a1">> ELSE <<"a2">>

\* client.transactionsGet: the bank's records dated inside the requested range;
\* only the first record of a bank is dated inside the custom range.
transactionsGet(access_token, range) ==
  IF range = "last30days"
    THEN BankRecords(access_token)
    ELSE SubSeq(BankRecords(access_token), 1, 1)

\* The rows user_banks can hold for the user, and the row of another user.
LinkedBanks ==
  {[id |-> 1, user_id |-> "u1", item_id |-> "i1", access_token |-> "b1"],
   [id |-> 2, user_id |-> "u1", item_id |-> "i2", access_token |-> "b2"]}

OtherUserBanks ==
  {[id |-> 3, user_id |-> OtherUser, item_id |-> "i3", access_token |-> "b3"]}

\* SELECT * FROM user_banks WHERE user_id = $1: the rows, in any order the
\* database may return them.
SelectBanks(table, user_id) ==
  LET rows == {r \in table : r.user_id = user_id}
  IN  {seq \in [1..Cardinality(rows) -> rows] :
         \A i, j \in DOMAIN seq : i # j => seq[i] # seq[j]}

NoResponse ==
  [status |-> 0, transactions |-> <<>>, accounts |-> <<>>,
   has_summary |-> FALSE, total |-> 0, auto_categorized |-> 0,
   manual_review_added |-> 0]

\* No /transactions request yet. logged are the banks (indices of banksResult)
\* whose fetch error was logged.
NoRequest ==
  [method |-> "none", pc |-> "idle", user_id |-> "u1", range |-> "last30days",
   banksResult |-> <<>>, bank |-> 0, transactionResponse |-> <<>>,
   allTransactions |-> <<>>, allAccounts |-> <<>>, logged |-> {},
   response |-> NoResponse]

\* The request arrives; GET always asks for the last 30 days, POST for the
\* range of its body or, without one, for the last 30 days.
TransactionsArrive(method, user_id, range) ==
  /\ request.pc \in {"idle", "answered"}
  /\ Quiescent
  /\ started < MaxCalls
  /\ method = "GET" => range = "last30days"
  /\ request' = [NoRequest EXCEPT !.method = method, !.user_id = user_id,
                                  !.range = range, !.pc = "banksQuery"]
  /\ UNCHANGED <<reconcileVars, user_banks, outsideRoute>>

\* Lines 263-268: the banks of the user; with none the handler answers at once.
BanksQuery ==
  /\ request.pc = "banksQuery"
  /\ \E rows \in SelectBanks(user_banks, request.user_id) :
       request' =
         IF Len(rows) = 0
           THEN [request EXCEPT !.pc = "answered",
                                !.response = [NoResponse EXCEPT !.status = 200]]
           ELSE [request EXCEPT !.pc = "transactionsGet",
                                !.banksResult = rows, !.bank = 1]
  /\ UNCHANGED <<reconcileVars, user_banks, outsideRoute>>

\* The banks query fails: the outer catch answers 500 (lines 316-319).
BanksQueryFails ==
  /\ faults < MaxFaults
  /\ request.pc = "banksQuery"
  /\ request' = [request EXCEPT !.pc = "answered",
                                !.response = [NoResponse EXCEPT !.status = 500]]
  /\ faults' = faults + 1
  /\ UNCHANGED <<transaction_categorizations, manual_review_transactions, calls,
                 previous, started, user_banks, outsideRoute>>

\* Line 290: the provider answers with the bank's transactions.
TransactionsGet ==
  /\ request.pc = "transactionsGet"
  /\ request' = [request EXCEPT !.pc = "accountsGet",
       !.transactionResponse =
          transactionsGet(request.banksResult[request.bank].access_token,
                          request.range)]
  /\ UNCHANGED <<reconcileVars, user_banks, outsideRoute>>

\* The loop of lines 282-300 is done with its current bank: it goes to the
\* next bank or, after the last, calls ingestion (line 305).
LoopContinues(r) ==
  LET d == [r EXCEPT !.transactionResponse = <<>>]
  IN  /\ IF r.bank < Len(r.banksResult)
           THEN /\ request' = [d EXCEPT !.pc = "transactionsGet", !.bank = r.bank + 1]
                /\ UNCHANGED <<calls, started>>
           ELSE /\ request' = [d EXCEPT !.pc = "ingest"]
                /\ calls' = [calls EXCEPT ![1] = IngestCall(r.user_id, r.allTransactions)]
                /\ started' = started + 1
      /\ UNCHANGED <<transaction_categorizations, manual_review_transactions,
                     previous, user_banks, outsideRoute>>

\* Lines 291-296: the provider answers with the accounts, and both answers are
\* appended.
AccountsGet ==
  /\ request.pc = "accountsGet"
  /\ LoopContinues(
       [request EXCEPT
          !.allTransactions = request.allTransactions \o request.transactionResponse,
          !.allAccounts = request.allAccounts \o
             BankAccounts(request.banksResult[request.bank].access_token)])
  /\ UNCHANGED faults

\* A catch that gives up on the banks that follow.
CatchFetchError_Break(r) ==
  [r EXCEPT !.logged = r.logged \cup {r.bank}, !.bank = Len(r.banksResult)]

\* Lines 297-299: the error of the bank is logged.
CatchFetchError(r) == [r EXCEPT !.logged = r.logged \cup {r.bank}]

\* Either provider call of the current bank fails: nothing of the bank is
\* appended.
FetchFails ==
  /\ faults < MaxFaults
  /\ request.pc \in {"transactionsGet", "accountsGet"}
  /\ LoopContinues(CatchFetchError(request))
  /\ faults' = faults + 1

\* Lines 307-319: the answer once the ingestion call returned or threw.
TransactionsResponse(r, c) ==
  IF c.pc = "threw"
    THEN [NoResponse EXCEPT !.status = 500]
    ELSE [status |-> 200, transactions |-> r.allTransactions,
          accounts |-> r.allAccounts, has_summary |-> TRUE,
          total |-> Len(r.allTransactions), auto_categorized |-> c.autoCount,
          manual_review_added |-> c.manualCount]

TransactionsAnswer ==
  /\ request.pc = "ingest"
  /\ calls[1].pc \in {"returned", "threw"}
  /\ request' = [request EXCEPT !.pc = "answered",
                                !.response = TransactionsResponse(request, calls[1])]
  /\ UNCHANGED <<reconcileVars, user_banks, outsideRoute>>

\* ------------------------------- POST /budgets (src/budgets.js 82-148)

\* Amounts of the requests are whole numbers, written as numbers or as strings.
Digits == <<"0","1","2","3","4","5","6","7","8","9">>

IsDigit(ch) == \E i \in DOMAIN Digits : Digits[i] = ch

DigitValue(ch) == (CHOOSE i \in DOMAIN Digits : Digits[i] = ch) - 1

\* The value of the run of digits of s that starts at i, after acc.
RECURSIVE parseDigits(_, _, _)
parseDigits(s, i, acc) ==
  IF i > Len(s) \/ ~IsDigit(s[i]) THEN acc
  ELSE parseDigits(s, i + 1, acc * 10 + DigitValue(s[i]))

NaN == [nan |-> TRUE, value |-> 0]

\* parseFloat on a string: an optional sign and the longest run of digits that
\* follows; what comes after the digits is ignored, and without a digit the
\* result is NaN.
parseFloatString(s) ==
  LET signed == Len(s) > 0 /\ s[1] \in {"-", "+"}
      first  == IF signed THEN 2 ELSE 1
      digits == parseDigits(s, first, 0)
  IN  IF first > Len(s) \/ ~IsDigit(s[first]) THEN NaN
      ELSE [nan |-> FALSE,
            value |-> IF signed /\ s[1] = "-" THEN 0 - digits ELSE digits]

\* A JSON value of the request body.
JsUndefined == [type |-> "undefined", num |-> 0, str |-> <<>>]

JsNull == [type |-> "null", num |-> 0, str |-> <<>>]

JsNumber(n) == [type |-> "number", num |-> n, str |-> <<>>]

JsString(s) == [type |-> "string", num |-> 0, str |-> s]

\* parseFloat(amount): a number is read back from its decimal text.
parseFloat(amount) ==
  IF amount.type = "number" THEN [nan |-> FALSE, value |-> amount.num]
  ELSE IF amount.type = "string" THEN parseFloatString(amount.str)
  ELSE NaN

\* new Date().toISOString().slice(0, 7)
CurrentMonth == <<"2","0","2","6","-","1","1">>

\* The values the fields of a request body take.
BudgetCategories == {Undefined, Defined(<<>>), Defined(<<"F","o","o","d">>)}

BudgetAmounts ==
  {JsUndefined, JsNull, JsNumber(10), JsNumber(0 - 5),
   JsString(<<"2","5">>), JsString(<<"a","b","c">>),
   JsString(<<"1","2","a","b","c">>), JsString(<<"-","5">>)}

BudgetMonths == {Undefined, Defined(<<"2","0","2","6","-","1","2">>)}

\* A body the handler accepts, and the bodies that differ from it in one field.
ValidBody ==
  [category |-> Defined(<<"F","o","o","d">>), amount |-> JsNumber(10),
   month |-> Undefined]

BudgetBodies ==
  {[ValidBody EXCEPT !.category = c] : c \in BudgetCategories}
  \cup {[ValidBody EXCEPT !.amount = a] : a \in BudgetAmounts}
  \cup {[ValidBody EXCEPT !.month = m] : m \in BudgetMonths}

\* Rows of the bag that have the key (user_id, category, month).
BudgetRowsOf(rows, user_id, category, month) ==
  {r \in BagToSet(rows) :
     r.user_id = user_id /\ r.category = category /\ r.month = month}

\* The rows without those of a key.
WithoutBudgetKey(rows, row) ==
  LET keep == {r \in BagToSet(rows) :
                 ~(r.user_id = row.user_id /\ r.category = row.category
                   /\ r.month = row.month)}
  IN  [r \in keep |-> rows[r]]

\* INSERT INTO budgets ... ON CONFLICT (user_id, category, month)
\* DO UPDATE SET amount = $3 (lines 106-112).
UpsertBudget(rows, row) ==
  IF BudgetRowsOf(rows, row.user_id, row.category, row.month) = {}
    THEN rows (+) SetToBag({row})
    ELSE WithoutBudgetKey(rows, row) (+) SetToBag({row})

\* Budget slots: POST /budgets requests that may overlap.
NoSave ==
  [pc |-> "idle", user_id |-> "u1",
   body |-> [category |-> Undefined, amount |-> JsUndefined, month |-> Undefined],
   numericAmount |-> 0, currentMonth |-> <<>>,
   firstError |-> "none", ensured |-> FALSE, upserts |-> 0,
   responses |-> 0, status |-> 0]

\* res.status(status).json(...): one more response of the request.
Respond(c, status) ==
  [c EXCEPT !.pc = "answered", !.status = status, !.responses = c.responses + 1]

\* Lines 84-96: the body is validated; an invalid body is answered 400 before
\* any statement.
Validate(c) ==
  LET numericAmount == parseFloat(c.body.amount)
  IN  IF ~Truthy(c.body.category) \/ c.body.amount.type \in {"undefined", "null"}
        THEN Respond(c, 400)
      ELSE IF numericAmount.nan \/ numericAmount.value < 0
        THEN Respond(c, 400)
      ELSE [c EXCEPT !.pc = "upsert",
                     !.numericAmount = numericAmount.value,
                     !.currentMonth = IF Truthy(c.body.month)
                                        THEN c.body.month.value ELSE CurrentMonth]

\* The row of line 114.
BudgetRow(c) ==
  [user_id |-> c.user_id, category |-> c.body.category.value,
   month |-> c.currentMonth, amount |-> c.numericAmount]

\* The request arrives and runs up to its first await.
BudgetArrive(p, user_id, body) ==
  /\ saves[p].pc \in {"idle", "answered"}
  /\ started < MaxCalls
  /\ saves' = [saves EXCEPT ![p] =
                 Validate([NoSave EXCEPT !.user_id = user_id, !.body = body])]
  /\ started' = started + 1
  /\ UNCHANGED <<budgets, applied, faults, outsideBudgets>>

\* The database applies the upsert of slot p.
ApplyUpsert(p) ==
  /\ budgets' = [budgets EXCEPT !.rows = UpsertBudget(budgets.rows, BudgetRow(saves[p]))]
  /\ applied' = {a \in applied :
                   ~(a.user_id = saves[p].user_id
                     /\ a.category = saves[p].body.category.value
                     /\ a.month = saves[p].currentMonth)}
                \cup {BudgetRow(saves[p])}

\* A catch that retries whatever the error.
CatchSaveError_RetryAlways(c, code) ==
  [c EXCEPT !.pc = "ensureExists", !.firstError = code]

\* Lines 118-146: the catch of the first upsert; only the missing-table error
\* leads to ensureBudgetsTable and the retry.
CatchSaveError(c, code) ==
  IF code = "42P01"
    THEN [c EXCEPT !.pc = "ensureExists", !.firstError = code]
    ELSE Respond([c EXCEPT !.firstError = code], 500)

\* Line 114: the upsert answers, with the row or with the missing-table error.
Upsert(p) ==
  LET c == [saves[p] EXCEPT !.upserts = saves[p].upserts + 1]
  IN  /\ saves[p].pc = "upsert"
      /\ IF budgets.exists
           THEN /\ ApplyUpsert(p)
                /\ saves' = [saves EXCEPT ![p] = Respond(c, 200)]
           ELSE /\ saves' = [saves EXCEPT ![p] = CatchSaveError(c, "42P01")]
                /\ UNCHANGED <<budgets, applied>>
      /\ UNCHANGED <<started, faults, outsideBudgets>>

\* The upsert fails for another reason (e.g. the connection).
UpsertFails(p) ==
  /\ faults < MaxFaults
  /\ saves[p].pc = "upsert"
  /\ saves' = [saves EXCEPT ![p] =
       CatchSaveError([saves[p] EXCEPT !.upserts = saves[p].upserts + 1], "08006")]
  /\ faults' = faults + 1
  /\ UNCHANGED <<budgets, applied, started, outsideBudgets>>

\* ensureBudgetsTable, lines 11-22: does the table exist?
EnsureExists(p) ==
  /\ saves[p].pc = "ensureExists"
  /\ saves' = [saves EXCEPT ![p] =
       [saves[p] EXCEPT !.ensured = TRUE,
                        !.pc = IF budgets.exists THEN "retry" ELSE "createTable"]]
  /\ UNCHANGED <<budgets, applied, started, faults, outsideBudgets>>

\* Lines 24-35: CREATE TABLE budgets; when another request created the table
\* in between, the error is caught (lines 49-56).
CreateTable(p) ==
  /\ saves[p].pc = "createTable"
  /\ IF budgets.exists
       THEN /\ saves' = [saves EXCEPT ![p] = [saves[p] EXCEPT !.pc = "retry"]]
            /\ UNCHANGED budgets
       ELSE /\ saves' = [saves EXCEPT ![p] = [saves[p] EXCEPT !.pc = "createIndexUserId"]]
            /\ budgets' = [exists |-> TRUE, rows |-> EmptyBag]
  /\ UNCHANGED <<applied, started, faults, outsideBudgets>>

\* Lines 37-43: the two CREATE INDEX IF NOT EXISTS statements.
CreateIndex(p) ==
  /\ saves[p].pc \in {"createIndexUserId", "createIndexMonth"}
  /\ saves' = [saves EXCEPT ![p] =
       [saves[p] EXCEPT !.pc = IF saves[p].pc = "createIndexUserId"
                                 THEN "createIndexMonth" ELSE "retry"]]
  /\ UNCHANGED <<budgets, applied, started, faults, outsideBudgets>>

\* A statement of ensureBudgetsTable fails: the function catches every error
\* and returns (lines 49-56).
EnsureFails(p) ==
  /\ faults < MaxFaults
  /\ saves[p].pc \in {"ensureExists", "createTable", "createIndexUserId",
                       "createIndexMonth"}
  /\ saves' = [saves EXCEPT ![p] = [saves[p] EXCEPT !.ensured = TRUE, !.pc = "retry"]]
  /\ faults' = faults + 1
  /\ UNCHANGED <<budgets, applied, started, outsideBudgets>>

\* Lines 126-143: the upsert is issued again and its outcome answered.
Retry(p) ==
  LET c == [saves[p] EXCEPT !.upserts = saves[p].upserts + 1]
  IN  /\ saves[p].pc = "retry"
      /\ IF budgets.exists
           THEN /\ ApplyUpsert(p)
                /\ saves' = [saves EXCEPT ![p] = Respond(c, 200)]
           ELSE /\ saves' = [saves EXCEPT ![p] = Respond(c, 500)]
                /\ UNCHANGED <<budgets, applied>>
      /\ UNCHANGED <<started, faults, outsideBudgets>>

\* The retried upsert fails for another reason.
RetryFails(p) ==
  /\ faults < MaxFaults
  /\ saves[p].pc = "retry"
  /\ saves' = [saves EXCEPT ![p] =
       Respond([saves[p] EXCEPT !.upserts = saves[p].upserts + 1], 500)]
  /\ faults' = faults + 1
  /\ UNCHANGED <<budgets, applied, started, outsideBudgets>>

\* --------------------------- POST /register (src/unnamed/part_000 9-55)

\* The values the fields of a registration body take.
Usernames == {Undefined, Defined(<<"a","n","n">>), Defined(<<"b","o","b">>)}

Emails == {Undefined, Defined(<<"a","@","x">>), Defined(<<"b","@","x">>)}

Passwords == {Undefined, Defined(<<"p","w">>)}

\* The bodies with at most one field missing.
RegisterBodies ==
  {b \in [username : Usernames, email : Emails, password : Passwords] :
     Cardinality({f \in {"username", "email", "password"} : ~b[f].defined}) <= 1}

\* SELECT * FROM users WHERE username = $1 OR email = $2 (lines 20-23).
SelectExistingUser(rows, username, email) ==
  {r \in BagToSet(rows) : r.username = username \/ r.email = email}

\* INSERT INTO users (username, email, password_hash) (lines 34-37). Where the
\* table declares username and email unique, a row that repeats either is
\* refused with the unique-violation error.
InsertUser(table, row) ==
  IF table.unique /\ SelectExistingUser(table.rows, row.username, row.email) # {}
    THEN [ok |-> FALSE, rows |-> table.rows]
    ELSE [ok |-> TRUE, rows |-> table.rows (+) SetToBag({row})]

\* No request in the slot. taken tells that the handler, at its SELECT or at
\* its INSERT, met a row with its username or its email.
NoRegistration ==
  [pc |-> "idle",
   body |-> [username |-> Undefined, email |-> Undefined, password |-> Undefined],
   status |-> 0, error |-> "none", taken |-> FALSE, inserted |-> FALSE]

\* res.status(status).json(...)
Answer(c, status) == [c EXCEPT !.pc = "answered", !.status = status]

\* Lines 13-17: the request arrives; a body with a missing field is answered 400.
RegisterArrive(p, body) ==
  /\ registrations[p].pc \in {"idle", "answered"}
  /\ started < MaxCalls
  /\ LET c == [NoRegistration EXCEPT !.body = body]
     IN  registrations' = [registrations EXCEPT ![p] =
           IF ~Truthy(body.username) \/ ~Truthy(body.email) \/ ~Truthy(body.password)
             THEN Answer(c, 400)
             ELSE [c EXCEPT !.pc = "select"]]
  /\ started' = started + 1
  /\ UNCHANGED <<users, faults, outsideAuth>>

\* Lines 20-27: the existence check answers.
SelectExisting(p) ==
  LET c == registrations[p]
  IN  /\ c.pc = "select"
      /\ registrations' = [registrations EXCEPT ![p] =
           IF SelectExistingUser(users.rows, c.body.username.value,
                                 c.body.email.value) # {}
             THEN Answer([c EXCEPT !.taken = TRUE], 400)
             ELSE [c EXCEPT !.pc = "hash"]]
      /\ UNCHANGED <<users, started, faults, outsideAuth>>

\* Line 31: bcrypt.hash resolves.
HashPassword(p) ==
  /\ registrations[p].pc = "hash"
  /\ registrations' = [registrations EXCEPT ![p] = [registrations[p] EXCEPT !.pc = "insert"]]
  /\ UNCHANGED <<users, started, faults, outsideAuth>>

\* Lines 34-54: the insert answers; the new user is answered 201, an error 500.
InsertNewUser(p) ==
  LET c == registrations[p]
      row == [username |-> c.body.username.value, email |-> c.body.email.value]
      r == InsertUser(users, row)
      d == [c EXCEPT !.taken = SelectExistingUser(users.rows, row.username,
                                                  row.email) # {}]
  IN  /\ c.pc = "insert"
      /\ users' = [users EXCEPT !.rows = r.rows]
      /\ registrations' = [registrations EXCEPT ![p] =
           IF r.ok THEN Answer([d EXCEPT !.inserted = TRUE], 201)
           ELSE Answer([d EXCEPT !.error = "23505"], 500)]
      /\ UNCHANGED <<started, faults, outsideAuth>>

\* An awaited statement fails for an external reason: the catch answers 500
\* (lines 51-54).
RegisterFails(p) ==
  /\ faults < MaxFaults
  /\ registrations[p].pc \in {"select", "hash", "insert"}
  /\ registrations' = [registrations EXCEPT ![p] =
       Answer([registrations[p] EXCEPT !.error = "08006"], 500)]
  /\ faults' = faults + 1
  /\ UNCHANGED <<users, started, outsideAuth>>

\* ------------------- POST /exchange_public_token (part_001 lines 72-132)

\* The public tokens a client can send: "p1" comes from linking again an item
\* the user had linked, "p2" from linking a new item.
PublicTokens == {"p1", "p2"}

\* client.itemPublicTokenExchange: the access token and the item of a public
\* token; every exchange yields a fresh access token.
itemPublicTokenExchange(public_token) ==
  IF public_token = "p1"
    THEN [access_token |-> "b4", item_id |-> "i1"]
    ELSE [access_token |-> "b5", item_id |-> "i5"]

\* The first value the sequence of user_banks.id has not handed out.
FirstFreeId == Cardinality(LinkedBanks \cup OtherUserBanks) + 1

\* The ids user_banks.id can take.
BankIds == 1..(FirstFreeId + MaxLinks - 1)

\* The rows of a (user_id, item_id) key.
BankRowsOf(table, user_id, item_id) ==
  {r \in table : r.user_id = user_id /\ r.item_id = item_id}

\* Lines 109-115: INSERT INTO user_banks ... ON CONFLICT (user_id, item_id)
\* DO UPDATE SET access_token = $3. A conflicting row keeps its id and takes
\* the new access token; without one the row is added under the id drawn
\* from the sequence.
InsertBankDoUpdate(table, id, user_id, item_id, access_token) ==
  IF BankRowsOf(table, user_id, item_id) # {}
    THEN {IF r \in BankRowsOf(table, user_id, item_id)
            THEN [r EXCEPT !.access_token = access_token]
            ELSE r : r \in table}
    ELSE table \cup {[id |-> id, user_id |-> user_id, item_id |-> item_id,
                      access_token |-> access_token]}

\* No linking or unlinking request yet. bankResult are the rows of the
\* unlinking handler's first query.
NoLink ==
  [kind |-> "none", pc |-> "idle", user_id |-> "u1", public_token |-> "",
   accessToken |-> "", itemId |-> "", bankId |-> 0, bankResult |-> <<>>,
   status |-> 0]

\* The handler answers with the status.
LinkAnswer(l, status) == [l EXCEPT !.pc = "answered", !.status = status]

\* The request arrives with the public token of its body.
ExchangeArrive(user_id, public_token) ==
  /\ link.pc \in {"idle", "answered"}
  /\ user_banks_id_seq < FirstFreeId + MaxLinks
  /\ link' = [NoLink EXCEPT !.kind = "exchange", !.pc = "itemPublicTokenExchange",
                            !.user_id = user_id, !.public_token = public_token]
  /\ UNCHANGED <<outsideBanks, faults, user_banks, user_banks_id_seq,
                 connected_banks, retrieval>>

\* Lines 82-89: the provider exchanges the public token.
ItemPublicTokenExchange ==
  /\ link.kind = "exchange" /\ link.pc = "itemPublicTokenExchange"
  /\ LET response == itemPublicTokenExchange(link.public_token)
     IN  link' = [link EXCEPT !.pc = "createTable",
                              !.accessToken = response.access_token,
                              !.itemId = response.item_id]
  /\ UNCHANGED <<outsideBanks, faults, user_banks, user_banks_id_seq,
                 connected_banks, retrieval>>

\* Lines 95-106: CREATE TABLE IF NOT EXISTS leaves the table it finds alone.
CreateUserBanks ==
  /\ link.kind = "exchange" /\ link.pc = "createTable"
  /\ link' = [link EXCEPT !.pc = "insert"]
  /\ UNCHANGED <<outsideBanks, faults, user_banks, user_banks_id_seq,
                 connected_banks, retrieval>>

\* Lines 109-126: the upsert, then the answer. The database draws the id from
\* the sequence before it looks for a conflict, so the sequence advances
\* either way.
InsertBank ==
  /\ link.kind = "exchange" /\ link.pc = "insert"
  /\ user_banks' = InsertBankDoUpdate(user_banks, user_banks_id_seq, link.user_id,
                                      link.itemId, link.accessToken)
  /\ user_banks_id_seq' = user_banks_id_seq + 1
  /\ link' = LinkAnswer(link, 200)
  /\ UNCHANGED <<outsideBanks, faults, connected_banks, retrieval>>

\* The provider call or a statement fails (the provider refuses a public
\* token it did not issue): the catch of lines 127-131
\* answers 500.
ExchangeFails ==
  /\ link.kind = "exchange"
  /\ link.pc \in {"itemPublicTokenExchange", "createTable", "insert"}
  /\ link' = LinkAnswer(link, 500)
  /\ UNCHANGED <<outsideBanks, faults, user_banks, user_banks_id_seq,
                 connected_banks, retrieval>>

\* ------------------------ DELETE /banks/:bankId (part_001 lines 715-753)

\* DELETE FROM user_banks WHERE id = $1 AND user_id = $2
DeleteBankRow(table, bankId, user_id) ==
  {r \in table : ~(r.id = bankId /\ r.user_id = user_id)}

\* The request arrives with the bank id of its path.
DeleteArrive(user_id, bankId) ==
  /\ link.pc \in {"idle", "answered"}
  /\ link' = [NoLink EXCEPT !.kind = "delete", !.pc = "bankQuery",
                            !.user_id = user_id, !.bankId = bankId]
  /\ UNCHANGED <<outsideBanks, faults, user_banks, user_banks_id_seq,
                 connected_banks, retrieval>>

\* Lines 721-728: the bank of that id and user; without one the answer is 404.
BankQuery ==
  /\ link.kind = "delete" /\ link.pc = "bankQuery"
  /\ LET rows == {r \in user_banks : r.id = link.bankId /\ r.user_id = link.user_id}
     IN  link' = IF rows = {}
                   THEN LinkAnswer(link, 404)
                   ELSE [link EXCEPT !.pc = "itemRemove",
                                     !.bankResult = <<CHOOSE r \in rows : TRUE>>]
  /\ UNCHANGED <<outsideBanks, faults, user_banks, user_banks_id_seq,
                 connected_banks, retrieval>>

\* Lines 732-735: the provider removes the item.
ItemRemove ==
  /\ link.kind = "delete" /\ link.pc = "itemRemove"
  /\ link' = [link EXCEPT !.pc = "delete"]
  /\ UNCHANGED <<outsideBanks, faults, user_banks, user_banks_id_seq,
                 connected_banks, retrieval>>

\* Lines 736-738: the provider call fails; the inner catch logs it and the
\* handler goes on.
ItemRemoveFails ==
  /\ link.kind = "delete" /\ link.pc = "itemRemove"
  /\ link' = [link EXCEPT !.pc = "delete"]
  /\ UNCHANGED <<outsideBanks, faults, user_banks, user_banks_id_seq,
                 connected_banks, retrieval>>

\* Lines 741-748: the row is deleted, then the answer.
DeleteBank ==
  /\ link.kind = "delete" /\ link.pc = "delete"
  /\ user_banks' = DeleteBankRow(user_banks, link.bankId, link.user_id)
  /\ link' = LinkAnswer(link, 200)
  /\ UNCHANGED <<outsideBanks, faults, user_banks_id_seq, connected_banks,
                 retrieval>>

\* Either statement fails: the outer catch of lines 749-752 answers 500.
DeleteFails ==
  /\ link.kind = "delete" /\ link.pc \in {"bankQuery", "delete"}
  /\ link' = LinkAnswer(link, 500)
  /\ UNCHANGED <<outsideBanks, faults, user_banks, user_banks_id_seq,
                 connected_banks, retrieval>>

\* ------ GET /accounts (514-582), /holdings (585-712), /liabilities (800-885)

Endpoints == {"accounts", "holdings", "liabilities"}

\* The table the banks query of the endpoint names: user_banks at lines 518
\* and 589, connected_banks at line 805.
BanksTable(endpoint) ==
  IF endpoint = "liabilities"
    THEN connected_banks
    ELSE [exists |-> TRUE, rows |-> user_banks]

\* What the provider calls of the loop body yield for one bank: accountsGet
\* (line 533); accountsGet and, with an investment account,
\* investmentsHoldingsGet (lines 609-636), where only the bank of "b1" has an
\* investment account; liabilitiesGet (line 827), where the bank of "b2" has
\* no credit liability.
ProviderData(endpoint, access_token) ==
  IF endpoint = "accounts" THEN BankAccounts(access_token)
  ELSE IF endpoint = "holdings"
    THEN (IF access_token = "b1" THEN <<"h1">> ELSE <<>>)
  ELSE (IF access_token = "b2" THEN <<>> ELSE <<"c1">>)

\* Lines 539-546, 656-666, 838-860: each item is tagged with the bank's id.
WithBank(items, bank) ==
  [i \in DOMAIN items |-> [bank_id |-> bank.id, item |-> items[i]]]

\* No retrieval request yet. logged are the banks (indices of banksResult)
\* whose error was logged.
NoRetrieval ==
  [endpoint |-> "none", pc |-> "idle", user_id |-> "u1", banksResult |-> <<>>,
   bank |-> 0, collected |-> <<>>, logged |-> {}, status |-> 0]

\* The request arrives.
RetrievalArrive(endpoint, user_id) ==
  /\ retrieval.pc \in {"idle", "answered"}
  /\ retrieval' = [NoRetrieval EXCEPT !.endpoint = endpoint, !.pc = "banksQuery",
                                      !.user_id = user_id]
  /\ UNCHANGED <<outsideBanks, faults, user_banks, user_banks_id_seq,
                 connected_banks, link>>

\* Lines 518-523, 589-595, 805-810: the banks of the user; with none the
\* handler answers at once. A query of a table that does not exist throws and
\* the outer catch answers 500.
RetrievalBanksQuery ==
  /\ retrieval.pc = "banksQuery"
  /\ LET table == BanksTable(retrieval.endpoint)
     IN  IF ~table.exists
           THEN retrieval' = [retrieval EXCEPT !.pc = "answered", !.status = 500]
           ELSE \E rows \in SelectBanks(table.rows, retrieval.user_id) :
                  retrieval' =
                    IF Len(rows) = 0
                      THEN [retrieval EXCEPT !.pc = "answered", !.status = 200]
                      ELSE [retrieval EXCEPT !.pc = "fetch", !.banksResult = rows,
                                             !.bank = 1]
  /\ UNCHANGED <<outsideBanks, faults, user_banks, user_banks_id_seq,
                 connected_banks, link>>

\* The banks query fails: the outer catch answers 500.
RetrievalBanksQueryFails ==
  /\ retrieval.pc = "banksQuery"
  /\ retrieval' = [retrieval EXCEPT !.pc = "answered", !.status = 500]
  /\ UNCHANGED <<outsideBanks, faults, user_banks, user_banks_id_seq,
                 connected_banks, link>>

\* The loop is done with its current bank: it goes to the next bank or, after
\* the last, answers.
NextBank(r) ==
  IF r.bank < Len(r.banksResult)
    THEN [r EXCEPT !.bank = r.bank + 1]
    ELSE [r EXCEPT !.pc = "answered", !.status = 200]

\* The provider is called with the access token of the current bank and
\* answers; what it returns is appended.
RetrievalFetch ==
  /\ retrieval.pc = "fetch"
  /\ LET bank == retrieval.banksResult[retrieval.bank]
     IN  retrieval' = NextBank(
           [retrieval EXCEPT
              !.collected = retrieval.collected \o
                 WithBank(ProviderData(retrieval.endpoint, bank.access_token), bank)])
  /\ UNCHANGED <<outsideBanks, faults, user_banks, user_banks_id_seq,
                 connected_banks, link>>

\* The provider call of the current bank fails: the catch of the loop body
\* (lines 564-566, 687-694, 861-867) logs it and the loop goes on.
RetrievalFetchFails ==
  /\ retrieval.pc = "fetch"
  /\ retrieval' = NextBank(
       [retrieval EXCEPT !.logged = retrieval.logged \cup {retrieval.bank}])
  /\ UNCHANGED <<outsideBanks, faults, user_banks, user_banks_id_seq,
                 connected_banks, link>>

\* ------------------------------------------------------- specifications

\* What another user's ingestion of the first two provider records left behind.
OtherUserTables ==
  [categorizations |-> SetToBag({CategorizationRow(OtherUser, ProviderRecords[1])}),
   manual_review   |-> SetToBag({ManualReviewRow(OtherUser, ProviderRecords[2])})]

\* The row another user saved.
OtherUserBudget ==
  [user_id |-> OtherUser, category |-> <<"F","o","o","d">>,
   month |-> CurrentMonth, amount |-> 40]

\* No POST /budgets request yet, and the table as startup left it.
BudgetsIdle ==
  /\ budgets = [exists |-> TRUE, rows |-> SetToBag({OtherUserBudget})]
  /\ applied = {OtherUserBudget}
  /\ saves = [p \in Slots |-> NoSave]

\* One registered user, and no POST /register request yet.
RegisteredUser == [username |-> <<"a","n","n">>, email |-> <<"a","@","x">>]

AuthIdle ==
  /\ users = [unique |-> TRUE, rows |-> SetToBag({RegisteredUser})]
  /\ registrations = [p \in Slots |-> NoRegistration]

\* No bank request yet. No statement of the sources creates connected_banks.
BanksIdle ==
  /\ user_banks_id_seq = FirstFreeId
  /\ connected_banks = [exists |-> FALSE, rows |-> {}]
  /\ link = NoLink
  /\ retrieval = NoRetrieval

\* The database holds another user's rows and none of the user's.
Init ==
  /\ transaction_categorizations = OtherUserTables.categorizations
  /\ manual_review_transactions = OtherUserTables.manual_review
  /\ calls = [p \in Slots |-> NoCall]
  /\ previous = Summary(NoCall)
  /\ started = 0
  /\ faults = 0
  /\ user_banks = LinkedBanks \cup OtherUserBanks
  /\ request = NoRequest
  /\ BudgetsIdle
  /\ AuthIdle
  /\ BanksIdle

\* A started request, or the database on its behalf, takes a step.
Proceed(p) ==
  \/ LookupCategorizations(p)
  \/ LookupManualReview(p)
  \/ \E i \in DOMAIN calls[p].transactions : RunInsert(p, i)
  \/ CategorizeUpsert(p)
  \/ CategorizeDelete(p)

\* A statement of a started request fails for an external reason.
Fail(p) ==
  \/ LookupFails(p)
  \/ \E i \in DOMAIN calls[p].transactions : InsertFails(p, i)
  \/ CategorizeFails(p)

\* A request arrives at slot p.
Arrive(p) ==
  \/ \E u \in Users, b \in Batches : IngestStart(p, u, b)
  \/ \E u \in Users, t \in TransactionIds, c \in UserCategories :
       CategorizeStart(p, u, t, c)

\* Requests are served one at a time by slot 1, and statements may fail.
Next ==
  \/ Proceed(1)
  \/ Fail(1)
  \/ /\ Quiescent /\ started < MaxCalls
     /\ Arrive(1)
     /\ previous' = Summary(calls[1])

Spec == Init /\ [][Next]_vars

\* A persisted state the sequential runs reach: each provider record is new
\* to the user, was ingested, or was categorized by the user.
SeedTables(status) ==
  LET ids(s) == {t \in TransactionIds : status[t] = s}
  IN  [categorizations |->
         OtherUserTables.categorizations
         (+) SetToBag({CategorizationRow("u1", TransactionOf(t)) :
                        t \in {x \in ids("ingested") : IsAutoCategorizable(TransactionOf(x))}})
         (+) SetToBag({UserCategorizationRow("u1", t, <<"R","e","n","t">>, TransactionOf(t)) :
                        t \in ids("categorized")}),
       manual_review |->
         OtherUserTables.manual_review
         (+) SetToBag({ManualReviewRow("u1", TransactionOf(t)) :
                        t \in {x \in ids("ingested") : ~IsAutoCategorizable(TransactionOf(x))}})]

InitRace ==
  /\ \E status \in [TransactionIds -> {"new", "ingested", "categorized"}] :
       /\ transaction_categorizations = SeedTables(status).categorizations
       /\ manual_review_transactions = SeedTables(status).manual_review
  /\ calls = [p \in Slots |-> NoCall]
  /\ previous = Summary(NoCall)
  /\ started = 0
  /\ faults = 0
  /\ user_banks = LinkedBanks \cup OtherUserBanks
  /\ request = NoRequest
  /\ BudgetsIdle
  /\ AuthIdle
  /\ BanksIdle

\* Two requests, each in its own slot, interleave at every await; no statement
\* fails for an external reason.
NextRace ==
  \/ \E p \in Slots : Proceed(p)
  \/ /\ calls[1].kind = "none"
     /\ Arrive(1)
     /\ UNCHANGED previous
  \/ /\ calls[1].kind # "none" /\ calls[2].kind = "none"
     /\ Arrive(2)
     /\ UNCHANGED previous

SpecRace == InitRace /\ [][NextRace]_vars

\* Provider records whose primary category is a code of the rule table, or
\* FOOD_AND_DRINK, which is outside it.
RuleRecords ==
  {[transaction_id |-> t, personal_finance_category |-> Defined(code)] :
     t \in TransactionIds,
     code \in {AUTO_CATEGORIZE_PLAID_CATEGORIES[i] :
                 i \in DOMAIN AUTO_CATEGORIZE_PLAID_CATEGORIES} \cup {FOOD_AND_DRINK}}

\* One ingestion call on one such record, with no failing statement.
NextRules ==
  \/ /\ calls[1].kind = "none"
     /\ \E u \in Users, tx \in RuleRecords : IngestStart(1, u, <<tx>>)
     /\ UNCHANGED previous
  \/ LookupCategorizations(1)
  \/ LookupManualReview(1)
  \/ \E i \in DOMAIN calls[1].transactions : RunInsert(1, i)

SpecRules == Init /\ [][NextRules]_vars

\* The user linked none, one or both of the banks, and nothing of the user
\* is persisted yet.
InitRoute ==
  /\ transaction_categorizations = OtherUserTables.categorizations
  /\ manual_review_transactions = OtherUserTables.manual_review
  /\ calls = [p \in Slots |-> NoCall]
  /\ previous = Summary(NoCall)
  /\ started = 0
  /\ faults = 0
  /\ \E S \in SUBSET LinkedBanks : user_banks = S \cup OtherUserBanks
  /\ request = NoRequest
  /\ BudgetsIdle
  /\ AuthIdle
  /\ BanksIdle

\* GET and POST /transactions requests served one after the other; provider
\* calls and statements may fail.
NextRoute ==
  \/ \E method \in {"GET", "POST"}, u \in Users, range \in {"last30days", "custom"} :
       TransactionsArrive(method, u, range)
  \/ BanksQuery
  \/ BanksQueryFails
  \/ TransactionsGet
  \/ AccountsGet
  \/ FetchFails
  \/ TransactionsAnswer
  \/ LookupCategorizations(1)
  \/ LookupManualReview(1)
  \/ \E i \in DOMAIN calls[1].transactions : RunInsert(1, i)
  \/ LookupFails(1)
  \/ \E i \in DOMAIN calls[1].transactions : InsertFails(1, i)

SpecRoute == InitRoute /\ [][NextRoute]_vars

\* The ensureBudgetsTable() of startup (line 60) created the table, or failed
\* and left it missing.
InitBudgets ==
  /\ transaction_categorizations = OtherUserTables.categorizations
  /\ manual_review_transactions = OtherUserTables.manual_review
  /\ calls = [p \in Slots |-> NoCall]
  /\ previous = Summary(NoCall)
  /\ started = 0
  /\ faults = 0
  /\ user_banks = LinkedBanks \cup OtherUserBanks
  /\ request = NoRequest
  /\ \/ /\ budgets = [exists |-> TRUE, rows |-> SetToBag({OtherUserBudget})]
        /\ applied = {OtherUserBudget}
     \/ /\ budgets = [exists |-> FALSE, rows |-> EmptyBag]
        /\ applied = {}
  /\ saves = [p \in Slots |-> NoSave]
  /\ AuthIdle
  /\ BanksIdle

\* A step of the POST /register request of slot p.
RegisterStep(p) ==
  \/ SelectExisting(p)
  \/ HashPassword(p)
  \/ InsertNewUser(p)
  \/ RegisterFails(p)

\* One user is registered; the users table, whose definition is not part of
\* the sources, declares username and email unique or does not.
InitRegister ==
  /\ transaction_categorizations = OtherUserTables.categorizations
  /\ manual_review_transactions = OtherUserTables.manual_review
  /\ calls = [p \in Slots |-> NoCall]
  /\ previous = Summary(NoCall)
  /\ started = 0
  /\ faults = 0
  /\ user_banks = LinkedBanks \cup OtherUserBanks
  /\ request = NoRequest
  /\ BudgetsIdle
  /\ \E unique \in BOOLEAN :
       users = [unique |-> unique, rows |-> SetToBag({RegisteredUser})]
  /\ registrations = [p \in Slots |-> NoRegistration]
  /\ BanksIdle

\* POST /register requests that overlap and follow one another.
NextRegister ==
  \/ \E p \in Slots, body \in RegisterBodies : RegisterArrive(p, body)
  \/ \E p \in Slots : RegisterStep(p)

SpecRegister == InitRegister /\ [][NextRegister]_vars

\* A step of the POST /budgets request of slot p.
BudgetStep(p) ==
  \/ Upsert(p)
  \/ UpsertFails(p)
  \/ EnsureExists(p)
  \/ CreateTable(p)
  \/ CreateIndex(p)
  \/ EnsureFails(p)
  \/ Retry(p)
  \/ RetryFails(p)

\* POST /budgets requests that overlap and follow one another.
NextBudgets ==
  \/ \E p \in Slots, u \in Users, body \in BudgetBodies : BudgetArrive(p, u, body)
  \/ \E p \in Slots : BudgetStep(p)

\* Every statement a handler awaits settles, with a result or with an error,
\* and the event loop then resumes the handler.
SpecBudgets ==
  InitBudgets /\ [][NextBudgets]_vars /\ \A p \in Slots : WF_vars(BudgetStep(p))

\* The banks linked so far: the user's first bank and another user's bank.
FirstBanks == {r \in LinkedBanks : r.item_id = "i1"} \cup OtherUserBanks

\* The user linked one bank. connected_banks is created and written by no
\* statement of the sources: it is missing, empty, or holds the banks linked
\* so far.
InitBanks ==
  /\ transaction_categorizations = OtherUserTables.categorizations
  /\ manual_review_transactions = OtherUserTables.manual_review
  /\ calls = [p \in Slots |-> NoCall]
  /\ previous = Summary(NoCall)
  /\ started = 0
  /\ faults = 0
  /\ user_banks = FirstBanks
  /\ request = NoRequest
  /\ BudgetsIdle
  /\ AuthIdle
  /\ user_banks_id_seq = FirstFreeId
  /\ connected_banks \in {[exists |-> FALSE, rows |-> {}],
                          [exists |-> TRUE, rows |-> {}],
                          [exists |-> TRUE, rows |-> FirstBanks]}
  /\ link = NoLink
  /\ retrieval = NoRetrieval

\* Banks are linked and unlinked one request after the other while retrievals,
\* one after the other, read them.
NextBanks ==
  \/ \E u \in Users, public_token \in PublicTokens :
       ExchangeArrive(u, public_token)
  \/ \E u \in Users, bankId \in BankIds : DeleteArrive(u, bankId)
  \/ ItemPublicTokenExchange
  \/ CreateUserBanks
  \/ InsertBank
  \/ ExchangeFails
  \/ BankQuery
  \/ ItemRemove
  \/ ItemRemoveFails
  \/ DeleteBank
  \/ DeleteFails
  \/ \E endpoint \in Endpoints, u \in Users \cup {OtherUser} :
       RetrievalArrive(endpoint, u)
  \/ RetrievalBanksQuery
  \/ RetrievalBanksQueryFails
  \/ RetrievalFetch
  \/ RetrievalFetchFails

SpecBanks == InitBanks /\ [][NextBanks]_vars

\* ---------------------------------------------------------------- claims

AllUsers == Users \cup {OtherUser}

\* The table holds a row for the key.
HasRow(table, user_id, transaction_id) == RowsOf(table, user_id, transaction_id) # {}

\* The slots that hold an ingestion call.
IngestSlots == {p \in Slots : calls[p].kind = "ingest"}

\* C1: in every steady state (no request in flight), whatever the interleaving
\* of ingestion calls and POST /categorize requests, no (user_id,
\* transaction_id) has both a categorization and a manual-review row.
C1_SteadyStateExclusive ==
  Quiescent =>
    \A u \in AllUsers, t \in TransactionIds :
      ~(HasRow(transaction_categorizations, u, t)
        /\ HasRow(manual_review_transactions, u, t))

\* The loop of the ingestion call has run: both lookups answered.
Classified(c) ==
  /\ c.kind = "ingest"
  /\ \/ c.pc \in {"awaitAuto", "awaitManual", "returned"}
     \/ c.pc = "threw" /\ c.thrownAt \in {"awaitAuto", "awaitManual"}

\* The records of the batch whose id is in neither set the call read.
Passed(c) ==
  {i \in DOMAIN c.transactions :
     c.transactions[i].transaction_id \notin (c.categorizedIds \cup c.manualReviewIds)}

\* The call is the second of two ingestion calls in a row on the same batch
\* for the same user, both of which returned.
SecondRun(c) ==
  /\ c.kind = "ingest" /\ c.pc = "returned"
  /\ previous.kind = "ingest" /\ previous.pc = "returned"
  /\ previous.user_id = c.user_id
  /\ previous.transactions = c.transactions

\* C2: an ingestion call that directly follows an ingestion call on the same
\* batch (all writes succeeding) leaves both tables as the first left them
\* and returns autoCount = 0 and manualCount = 0.
C2_Idempotent ==
  SecondRun(calls[1]) =>
    /\ Tables = calls[1].before
    /\ calls[1].autoCount = 0
    /\ calls[1].manualCount = 0

\* A second run on a batch of which the first run wrote one record to each table.
C2_Witness ==
  /\ SecondRun(calls[1])
  /\ previous.autoCount = 1 /\ previous.manualCount = 1
  /\ calls[1].manualReviewIds # {}

\* The table an ingestion call writes record i of its batch to.
TargetHasRow(c, i) ==
  IF IsAutoCategorizable(c.transactions[i])
    THEN HasRow(transaction_categorizations, c.user_id, c.transactions[i].transaction_id)
    ELSE HasRow(manual_review_transactions, c.user_id, c.transactions[i].transaction_id)

\* C3: when exactly one insert of an ingestion call fails, every other record
\* that passed the dedup filter, in either partition, has its insert issued and
\* is persisted when the call is over.
C3_PartialSuccess ==
  \A p \in IngestSlots :
    LET c == calls[p]
    IN  (Classified(c) /\ Finished(c) /\ Cardinality(c.rejected) = 1) =>
          \A i \in Passed(c) \ c.rejected : i \in c.issued /\ TargetHasRow(c, i)

\* The records of the batch that match a rule and had no row when the call arrived.
FreshAuto(c) ==
  {i \in DOMAIN c.transactions :
     /\ includes(AUTO_CATEGORIZE_PLAID_CATEGORIES,
                 c.transactions[i].personal_finance_category.value)
     /\ ~HasRow(c.before.categorizations, c.user_id, c.transactions[i].transaction_id)
     /\ ~HasRow(c.before.manual_review, c.user_id, c.transactions[i].transaction_id)}

\* The records of the batch that had a categorization when the call arrived.
AlreadyCategorized(c) ==
  {i \in DOMAIN c.transactions :
     HasRow(c.before.categorizations, c.user_id, c.transactions[i].transaction_id)}

\* C4: an ingestion call leaves every categorization row that existed when it
\* arrived as it was (category and stored data), and when it returns each new
\* rule-matching record has its categorization and autoCount counts exactly those.
C4_FirstWriteWins ==
  LET c == calls[1]
  IN  c.kind = "ingest" =>
        /\ \A r \in BagToSet(c.before.categorizations) :
             CopiesIn(r, transaction_categorizations) = 1
        /\ c.pc = "returned" =>
             /\ c.autoCount = Cardinality(FreshAuto(c))
             /\ \A i \in FreshAuto(c) :
                  CopiesIn(CategorizationRow(c.user_id, c.transactions[i]),
                           transaction_categorizations) = 1

\* A returned call whose batch held an already categorized record and one new
\* rule-matching record.
C4_Witness ==
  LET c == calls[1]
  IN  /\ c.kind = "ingest" /\ c.pc = "returned"
      /\ AlreadyCategorized(c) # {}
      /\ Cardinality(FreshAuto(c)) = 1
      /\ c.autoCount = 1

\* The ingestion call follows a POST /categorize that answered success, for the
\* same user, and record i of its batch is the transaction categorized.
Redelivers(c, i) ==
  /\ c.kind = "ingest"
  /\ previous.kind = "categorize" /\ previous.pc = "returned"
  /\ previous.user_id = c.user_id
  /\ c.transactions[i].transaction_id = previous.transaction_id

\* C5: when POST /categorize has answered success, the key has exactly one
\* categorization, with the category of the request, and no manual-review row;
\* an ingestion that then re-delivers the transaction issues no write for it,
\* changes no table on its account and counts it in neither total.
C5_ExplicitResolves ==
  LET c == calls[1]
  IN  /\ (c.kind = "categorize" /\ c.pc = "returned") =>
           /\ RowCount(transaction_categorizations, c.user_id, c.transaction_id) = 1
           /\ \A r \in RowsOf(transaction_categorizations, c.user_id, c.transaction_id) :
                r.category = c.category
           /\ ~HasRow(manual_review_transactions, c.user_id, c.transaction_id)
      /\ \A i \in DOMAIN c.transactions :
           Redelivers(c, i) =>
             /\ i \notin c.issued
             /\ i \notin c.autoCategorizationPromises
             /\ i \notin c.manualReviewTransactions
             /\ \A r \in RowsOf(transaction_categorizations, c.user_id, previous.transaction_id) :
                  r.category = previous.category
             /\ ~HasRow(manual_review_transactions, c.user_id, previous.transaction_id)
             /\ Len(c.transactions) = 1 => Tables = c.before
             /\ (Len(c.transactions) = 1 /\ c.pc = "returned") =>
                  c.autoCount = 0 /\ c.manualCount = 0

\* A transaction that was in manual review was categorized by the user, and
\* the next ingestion, which re-delivered it, has returned.
C5_Witness ==
  LET c == calls[1]
  IN  /\ c.pc = "returned"
      /\ \E i \in DOMAIN c.transactions : Redelivers(c, i)
      /\ previous.transaction_id \in previous.pendingBefore

\* Slot p holds a finished ingestion call and slot q a POST /categorize that
\* answered success, for the same user, and record i of the batch is the
\* rule-matching transaction the user categorized.
RacedWithUser(p, q, i) ==
  /\ calls[p].kind = "ingest" /\ Finished(calls[p])
  /\ calls[q].kind = "categorize" /\ calls[q].pc = "returned"
  /\ calls[p].user_id = calls[q].user_id
  /\ i \in DOMAIN calls[p].transactions
  /\ calls[p].transactions[i].transaction_id = calls[q].transaction_id
  /\ includes(AUTO_CATEGORIZE_PLAID_CATEGORIES,
              calls[p].transactions[i].personal_finance_category.value)

\* C6: however one ingestion call whose batch holds a rule-matching transaction
\* and one POST /categorize of that transaction interleave, once both are over
\* the transaction's one categorization has the user's category.
C6_UserCategorySurvives ==
  \A p \in Slots, q \in Slots, i \in 1..Len(ProviderRecords) :
    RacedWithUser(p, q, i) =>
      /\ RowCount(transaction_categorizations, calls[q].user_id, calls[q].transaction_id) = 1
      /\ \A r \in RowsOf(transaction_categorizations,
                         calls[q].user_id, calls[q].transaction_id) :
           r.category = calls[q].category

\* The two overlapped: the ingestion call issued its insert for the transaction
\* (its lookup saw no row), and the POST /categorize arrived before that insert ran.
C6_Witness ==
  \E p \in Slots, q \in Slots, i \in 1..Len(ProviderRecords) :
    /\ RacedWithUser(p, q, i)
    /\ i \in calls[p].issued
    /\ ~HasRow(calls[q].before.categorizations, calls[q].user_id, calls[q].transaction_id)
    /\ calls[q].category # cleanCategory(calls[p].transactions[i].personal_finance_category.value)

\* Both slots hold a finished ingestion call of the same user.
TwoIngestions ==
  /\ calls[1].kind = "ingest" /\ Finished(calls[1])
  /\ calls[2].kind = "ingest" /\ Finished(calls[2])
  /\ calls[1].user_id = calls[2].user_id

\* Every record of the batch carries its transaction_id.
WellFormed(transactions) ==
  \A i \in DOMAIN transactions : transactions[i].transaction_id # NULL

\* C7: however two ingestion calls of one user interleave, once both are over
\* neither has failed (given batches whose records carry their ids), each table
\* holds at most one row per (user_id, transaction_id), and the tables are those
\* the two calls leave when run one after the other.
C7_ConcurrentIngestion ==
  TwoIngestions =>
    /\ \A p \in Slots : WellFormed(calls[p].transactions) => calls[p].pc = "returned"
    /\ \A u \in AllUsers, t \in TransactionIds :
         /\ RowCount(transaction_categorizations, u, t) <= 1
         /\ RowCount(manual_review_transactions, u, t) <= 1
    /\ (calls[1].pc = "returned" /\ calls[2].pc = "returned") =>
         LET first  == IngestAlone(calls[1].before, calls[1].user_id, calls[1].transactions)
             second == IngestAlone(first.tables, calls[2].user_id, calls[2].transactions)
         IN  first.ok /\ second.ok /\ Tables = second.tables

\* Both calls returned after each issued an insert for the same transaction.
C7_Witness ==
  /\ TwoIngestions
  /\ calls[1].pc = "returned" /\ calls[2].pc = "returned"
  /\ \E i \in calls[1].issued, j \in calls[2].issued :
       calls[1].transactions[i] = calls[2].transactions[j]
  /\ calls[1].transactions # calls[2].transactions

\* C8: in every ingestion call each record that passed the dedup filter is in
\* exactly one of the two partitions, and the call returns
\* autoCount + manualCount = the number of records that passed.
C8_PartitionComplete ==
  \A p \in IngestSlots :
    LET c == calls[p]
    IN  /\ Classified(c) =>
             /\ c.autoCategorizationPromises \cap c.manualReviewTransactions = {}
             /\ c.autoCategorizationPromises \cup c.manualReviewTransactions = Passed(c)
        /\ c.pc = "returned" =>
             c.autoCount + c.manualCount = Cardinality(Passed(c))

\* A returned call with a record in each partition.
C8_Witness ==
  \E p \in IngestSlots :
    /\ calls[p].pc = "returned"
    /\ calls[p].autoCount = 1 /\ calls[p].manualCount = 1

\* The records of the batch whose key had a row in neither table when the call arrived.
Unknown(c) ==
  {i \in DOMAIN c.transactions :
     /\ ~HasRow(c.before.categorizations, c.user_id, c.transactions[i].transaction_id)
     /\ ~HasRow(c.before.manual_review, c.user_id, c.transactions[i].transaction_id)}

\* C9: an ingestion call never issues a write for a record whose id the user
\* already has in either table; a call that returns has issued a write for, and
\* counted, exactly the records whose id was in neither; a batch of known
\* records only returns {0, 0} with no write and no error.
C9_DedupFilter ==
  \A p \in IngestSlots :
    LET c == calls[p]
    IN  /\ c.issued \subseteq Unknown(c)
        /\ c.pc = "returned" =>
             /\ c.issued = Unknown(c)
             /\ c.autoCategorizationPromises \cup c.manualReviewTransactions = Unknown(c)
             /\ c.autoCount + c.manualCount = Cardinality(Unknown(c))
        /\ (Classified(c) /\ Unknown(c) = {}) =>
             /\ c.pc = "returned" /\ c.autoCount = 0 /\ c.manualCount = 0
             /\ c.issued = {} /\ Tables = c.before

\* A returned call whose batch held a known record and an unknown one, the
\* known one known to the other user too.
C9_Witness ==
  \E p \in IngestSlots :
    LET c == calls[p]
    IN  /\ c.pc = "returned"
        /\ Unknown(c) # {} /\ Unknown(c) # DOMAIN c.transactions
        /\ \E i \in Unknown(c) :
             HasRow(c.before.categorizations, OtherUser, c.transactions[i].transaction_id)

\* C10: a record that passed the dedup filter is routed to auto exactly when its
\* personal_finance_category.primary is present and in the rule table; with the
\* category absent or outside the table (FOOD_AND_DRINK) it is routed to manual
\* review, gets no categorization and, when the call returns, has its
\* manual-review row.
C10_ClassifierDecision ==
  \A p \in IngestSlots :
    LET c == calls[p]
    IN  Classified(c) =>
          \A i \in Passed(c) :
            LET tx  == c.transactions[i]
                pfc == tx.personal_finance_category
            IN  /\ i \in c.autoCategorizationPromises <=>
                     (pfc.defined /\ includes(AUTO_CATEGORIZE_PLAID_CATEGORIES, pfc.value))
                /\ (~pfc.defined \/ pfc.value = FOOD_AND_DRINK) =>
                     i \in c.manualReviewTransactions
                /\ i \in c.manualReviewTransactions =>
                     /\ ~HasRow(transaction_categorizations, c.user_id, tx.transaction_id)
                     /\ c.pc = "returned" =>
                          HasRow(manual_review_transactions, c.user_id, tx.transaction_id)

\* A returned call that routed a FOOD_AND_DRINK record and a record with no
\* category to manual review.
C10_Witness ==
  \E p \in IngestSlots :
    LET c == calls[p]
    IN  /\ c.pc = "returned"
        /\ \E i \in c.manualReviewTransactions :
             c.transactions[i].personal_finance_category = Defined(FOOD_AND_DRINK)
        /\ \E i \in c.manualReviewTransactions :
             ~c.transactions[i].personal_finance_category.defined

\* The code with each underscore turned into a space, the first letter and each
\* letter after an underscore kept in upper case, every other letter in lower
\* case.
TitleCased(code) ==
  [i \in DOMAIN code |->
     IF code[i] = "_" THEN " "
     ELSE IF i = 1 \/ code[i - 1] = "_" THEN toUpperCaseChar(code[i])
     ELSE toLowerCaseChar(code[i])]

\* The categorizations of the user that keep the provider record with this code.
StoredFor(code) ==
  {r \in BagToSet(transaction_categorizations) :
     r.user_id \in Users /\ r.plaid_data.json.personal_finance_category = Defined(code)}

\* C11: for every code of the rule table, the category stored by
\* auto-categorization is the code with underscores replaced by spaces,
\* lowercased, and the first letter of each word uppercased: TRANSFER_IN is
\* stored as 'Transfer In' and ATM_FEES as 'Atm Fees'; a returned call has
\* stored that row for its rule-matching record.
C11_DisplayCategory ==
  /\ \A i \in DOMAIN AUTO_CATEGORIZE_PLAID_CATEGORIES :
       \A r \in StoredFor(AUTO_CATEGORIZE_PLAID_CATEGORIES[i]) :
         r.category = TitleCased(AUTO_CATEGORIZE_PLAID_CATEGORIES[i])
  /\ \A r \in StoredFor(TRANSFER_IN) :
       r.category = <<"T","r","a","n","s","f","e","r"," ","I","n">>
  /\ \A r \in StoredFor(ATM_FEES) :
       r.category = <<"A","t","m"," ","F","e","e","s">>
  /\ \A p \in IngestSlots :
       LET c == calls[p]
       IN  c.pc = "returned" =>
             \A i \in c.autoCategorizationPromises :
               \E r \in StoredFor(c.transactions[i].personal_finance_category.value) :
                 r.transaction_id = c.transactions[i].transaction_id

\* Ingestion stored a categorization for an ATM_FEES record and the call returned.
C11_Witness ==
  /\ StoredFor(ATM_FEES) # {}
  /\ \E p \in IngestSlots :
       /\ calls[p].pc = "returned"
       /\ calls[p].autoCategorizationPromises # {}

\* The records of the call's batch that carry no transaction_id.
MissingId(c) ==
  {i \in DOMAIN c.transactions : c.transactions[i].transaction_id = NULL}

\* C12: a record of the batch whose transaction_id is missing is skipped by
\* ingestion: no write is attempted for it, it is counted in neither bucket,
\* and no statement of the call is rejected because of it.
C12_MissingIdSkipped ==
  \A p \in IngestSlots :
    LET c == calls[p]
    IN  \A i \in MissingId(c) :
          /\ i \notin c.issued
          /\ i \notin c.autoCategorizationPromises
          /\ i \notin c.manualReviewTransactions
          /\ i \notin c.rejected

\* The /transactions request went through its bank loop and called ingestion:
\* calls[1] is the call it made.
CalledIngestion ==
  request.pc \in {"ingest", "answered"} /\ Len(request.banksResult) > 0

\* C13: a persistence failure on an individual upsert is not fatal: the
\* ingestion call returns {autoCount, manualCount} equal to the number of
\* records it put in each bucket, and the /transactions request that made the
\* call does not answer 500.
C13_UpsertFailureTolerated ==
  LET c == calls[1]
  IN  (CalledIngestion /\ request.pc = "answered" /\ c.rejected # {}) =>
        /\ c.pc = "returned"
        /\ c.autoCount = Cardinality(c.autoCategorizationPromises)
        /\ c.manualCount = Cardinality(c.manualReviewTransactions)
        /\ request.response.status = 200

\* The call threw at one of its two lookups.
LookupFailed(c) ==
  c.kind = "ingest" /\ c.thrownAt \in {"lookupCategorizations", "lookupManualReview"}

\* C14: when either lookup query fails the ingestion call fails, it has issued
\* no write and the tables are as they were at its start, the /transactions
\* request answers 500, and neither the call nor the handler runs the lookup
\* again: the failed call stays as it is until another request calls ingestion.
C14_LookupFailureFatal ==
  /\ [](LookupFailed(calls[1]) =>
         /\ calls[1].pc = "threw"
         /\ calls[1].issued = {} /\ calls[1].pending = {}
         /\ Tables = calls[1].before
         /\ (CalledIngestion /\ request.pc = "answered") =>
              request.response.status = 500)
  /\ [][LookupFailed(calls[1]) =>
         /\ calls'[1] # calls[1] =>
              /\ request.pc \in {"transactionsGet", "accountsGet"}
              /\ started' = started + 1
         /\ request.pc = "ingest" => request'.pc = "answered"]_vars

\* The second lookup failed and the request was answered.
C14_Witness ==
  /\ calls[1].kind = "ingest" /\ calls[1].thrownAt = "lookupManualReview"
  /\ CalledIngestion /\ request.pc = "answered"
  /\ request.response.status = 500

\* The transactions of the banks whose fetch did not fail, in the order of
\* the banks.
RECURSIVE CollectedFrom(_, _)
CollectedFrom(r, i) ==
  IF i > Len(r.banksResult) THEN <<>>
  ELSE (IF i \in r.logged THEN <<>>
        ELSE transactionsGet(r.banksResult[i].access_token, r.range))
       \o CollectedFrom(r, i + 1)

\* C15: in GET and POST /transactions, when the fetch of one bank fails, the
\* transactions of every bank whose fetch succeeds are collected, passed to
\* ingestion and, when ingestion returns, answered with status 200; a 500 is
\* answered only when the ingestion call threw.
C15_BankFailureIsolated ==
  CalledIngestion =>
    /\ request.allTransactions = CollectedFrom(request, 1)
    /\ calls[1].kind = "ingest"
    /\ calls[1].transactions = request.allTransactions
    /\ request.pc = "answered" =>
         /\ calls[1].pc = "returned" =>
              /\ request.response.status = 200
              /\ request.response.transactions = CollectedFrom(request, 1)
         /\ request.response.status = 500 => calls[1].pc = "threw"

\* The fetch of the first bank failed and the request answered the
\* transactions of the second.
C15_Witness ==
  /\ request.pc = "answered" /\ request.response.status = 200
  /\ request.logged = {1} /\ Len(request.banksResult) = 2
  /\ Len(request.response.transactions) > 0

\* Every row of the table before the step is in the table after it, and each
\* row the step added belongs to the user and to a key that had no row.
OnlyAddsFreshKeys(before, after, user_id) ==
  /\ before \sqsubseteq after
  /\ \A r \in BagToSet(after) :
       CopiesIn(r, after) > CopiesIn(r, before) =>
         /\ r.user_id = user_id
         /\ RowsOf(before, r.user_id, r.transaction_id) = {}

\* What C16 asks of one step.
LifecycleStep ==
  /\ \A p \in Slots :
       (calls[p].kind = "ingest" /\ calls'[p] # calls[p]) =>
         /\ OnlyAddsFreshKeys(transaction_categorizations,
                              transaction_categorizations', calls[p].user_id)
         /\ OnlyAddsFreshKeys(manual_review_transactions,
                              manual_review_transactions', calls[p].user_id)
  /\ \A u \in AllUsers, t \in TransactionIds :
       /\ (HasRow(manual_review_transactions, u, t)
             /\ ~HasRow(manual_review_transactions', u, t)) =>
            \E q \in Slots :
              /\ calls[q].kind = "categorize" /\ calls[q].pc = "delete"
              /\ calls[q].user_id = u /\ calls[q].transaction_id = t
              /\ calls'[q].pc = "returned"
       /\ HasRow(transaction_categorizations, u, t) =>
            HasRow(transaction_categorizations', u, t)

\* C16: a step of an ingestion call never deletes or modifies an existing row
\* of either table and only adds rows for keys that had none; a manual-review
\* row disappears only in the DELETE of a POST /categorize for the same
\* (user_id, transaction_id); a key that has a categorization keeps one in
\* every step.
C16_LifecycleFrame == [][LifecycleStep]_vars

\* An ingestion call that found rows of the user added a row, while a
\* POST /categorize removed one manual-review row of the user and left another.
C16_Witness ==
  \E p, q \in Slots :
    /\ calls[p].kind = "ingest" /\ calls[p].pc = "returned"
    /\ calls[p].issued # {}
    /\ calls[p].categorizedIds # {}
    /\ calls[q].kind = "categorize" /\ calls[q].pc = "returned"
    /\ HasRow(calls[q].before.manual_review, calls[q].user_id, calls[q].transaction_id)
    /\ ~HasRow(manual_review_transactions, calls[q].user_id, calls[q].transaction_id)
    /\ \E t \in TransactionIds :
         HasRow(manual_review_transactions, calls[q].user_id, t)

\* C18: when POST /categorize answers 500 the persisted state is as it was:
\* in no outcome has the request's categorization been written while the
\* manual-review row of the same key is still present.
C18_CategorizeAllOrNothing ==
  \A p \in Slots :
    LET c == calls[p]
    IN  (c.kind = "categorize" /\ c.pc = "threw") =>
          ~ /\ transaction_categorizations # c.before.categorizations
            /\ \E r \in RowsOf(transaction_categorizations, c.user_id, c.transaction_id) :
                 r.category = c.category
            /\ HasRow(manual_review_transactions, c.user_id, c.transaction_id)

\* What C17 asks of the local state of one POST /budgets request.
RetryShape(c) ==
  /\ c.responses <= 1
  /\ c.pc = "answered" <=> c.responses = 1
  /\ c.upserts <= 2
  /\ c.pc \in {"ensureExists", "createTable", "createIndexUserId",
                "createIndexMonth", "retry"} =>
       c.firstError = "42P01" /\ c.upserts = 1
  /\ c.pc = "retry" => c.ensured
  /\ (c.pc = "answered" /\ c.status # 400) =>
       /\ c.firstError = "none" => (c.upserts = 1 /\ ~c.ensured /\ c.status = 200)
       /\ c.firstError = "42P01" =>
            (c.upserts = 2 /\ c.ensured /\ c.status \in {200, 500})
       /\ c.firstError \notin {"none", "42P01"} =>
            (c.upserts = 1 /\ ~c.ensured /\ c.status = 500)

\* The step that answers the retry: success exactly when the database applied
\* the upsert, and 500 with the table untouched otherwise.
RetryOutcome(p) ==
  (saves[p].pc = "retry" /\ saves'[p].pc = "answered") =>
    /\ saves'[p].upserts = 2
    /\ saves'[p].status = 200 =>
         (budgets.exists /\ BudgetRow(saves[p]) \in BagToSet(budgets'.rows))
    /\ saves'[p].status # 200 => (saves'[p].status = 500 /\ budgets' = budgets)

\* C17: when the upsert of POST /budgets fails with 42P01 the handler runs
\* ensureBudgetsTable and issues the upsert once more, answering success when
\* the retry succeeds and 500 when it fails; any other error is answered 500
\* with no retry; every request sends exactly one response, and sends it.
C17_RetryOnceOnMissingTable ==
  /\ [](\A p \in Slots : RetryShape(saves[p]))
  /\ [][\A p \in Slots : RetryOutcome(p)]_vars
  /\ \A p \in Slots :
       (saves[p].pc \notin {"idle", "answered"}) ~> (saves[p].pc = "answered")

\* One request was answered 200 by its retry and another 500 by its retry.
C17_Witness ==
  \E p, q \in Slots :
    /\ saves[p].pc = "answered" /\ saves[p].firstError = "42P01"
    /\ saves[p].status = 200 /\ saves[p].upserts = 2
    /\ saves[q].pc = "answered" /\ saves[q].firstError = "42P01"
    /\ saves[q].status = 500 /\ saves[q].upserts = 2

\* The text is a whole number: an optional sign, then digits and nothing else.
IsNumeral(str) ==
  LET first == IF Len(str) > 0 /\ str[1] \in {"-", "+"} THEN 2 ELSE 1
  IN  /\ first <= Len(str)
      /\ \A i \in first..Len(str) : IsDigit(str[i])

\* The amount is not a number: a string that is not the text of a number.
NonNumeric(amount) == amount.type = "string" /\ ~IsNumeral(amount.str)

\* The amount is a number, or the text of a number, below zero.
Negative(amount) ==
  \/ amount.type = "number" /\ amount.num < 0
  \/ amount.type = "string" /\ IsNumeral(amount.str) /\ amount.str[1] = "-"
     /\ \E i \in 2..Len(amount.str) : amount.str[i] # "0"

\* At most one budget row per (user_id, category, month).
BudgetKeysUnique ==
  \A r \in BagToSet(budgets.rows) :
    /\ CopiesIn(r, budgets.rows) = 1
    /\ BudgetRowsOf(budgets.rows, r.user_id, r.category, r.month) = {r}

\* The row of a key carries the amount of the last upsert applied for the key.
BudgetLastWriteWins == BagToSet(budgets.rows) = applied

\* A POST with a missing category, a missing amount, or a non-numeric or
\* negative amount was answered 400 and issued no statement.
BudgetInvalidRejected ==
  \A p \in Slots :
    LET c == saves[p]
    IN  (/\ c.pc = "answered"
         /\ \/ ~c.body.category.defined
            \/ c.body.amount.type \in {"undefined", "null"}
            \/ NonNumeric(c.body.amount)
            \/ Negative(c.body.amount))
        => (c.status = 400 /\ c.upserts = 0)

\* C19: after any interleaving of POST /budgets requests there is at most one
\* budget row per (user_id, category, month) and its amount is that of the
\* last upsert applied for the key; a POST with a missing category, a missing
\* amount, or a non-numeric or negative amount answers 400 and changes no row.
C19_BudgetUniqueLastWriteWins ==
  /\ BudgetKeysUnique
  /\ BudgetLastWriteWins
  /\ BudgetInvalidRejected

\* No two user rows share a username or an email.
UsersUnique ==
  \A r \in BagToSet(users.rows) :
    /\ CopiesIn(r, users.rows) = 1
    /\ SelectExistingUser(users.rows, r.username, r.email) = {r}

\* C20: after any interleaving of POST /register requests no two user rows
\* share a username or an email, and a request that met a row with its
\* username or its email, at its check or at its insert, was answered 400 and
\* inserted nothing.
C20_RegistrationUnique ==
  /\ UsersUnique
  /\ \A p \in Slots :
       LET c == registrations[p]
       IN  (c.pc = "answered" /\ c.taken) => (c.status = 400 /\ ~c.inserted)

\* The same, where the users table declares username and email unique.
RegistrationUniqueIfDeclared == users.unique => C20_RegistrationUnique

\* The same, where the users table declares no uniqueness.
RegistrationUniqueIfUndeclared == ~users.unique => C20_RegistrationUnique


\* The banks the user has connected: the user's rows of user_banks.
ConnectedBanks(table, user_id) == {r \in table : r.user_id = user_id}

\* The rows of a query result.
ResultRows(rows) == {rows[i] : i \in DOMAIN rows}

\* A successful exchange leaves one row for its (user_id, item_id), holding
\* the access token of the exchange, and every other row as it was.
ExchangeConnects ==
  (link.kind = "exchange" /\ link.pc = "insert" /\ link'.status = 200) =>
    /\ \E r \in user_banks' :
         /\ BankRowsOf(user_banks', link.user_id, link.itemId) = {r}
         /\ r.access_token = link.accessToken
    /\ user_banks' \ BankRowsOf(user_banks', link.user_id, link.itemId)
         = user_banks \ BankRowsOf(user_banks, link.user_id, link.itemId)

\* A successful DELETE /banks/:bankId removes the user's bank of that id and
\* no other row.
DeleteDisconnects ==
  (link.kind = "delete" /\ link.pc = "delete" /\ link'.status = 200) =>
    user_banks' = {r \in user_banks : ~(r.id = link.bankId /\ r.user_id = link.user_id)}

\* Nothing else changes the connected banks.
OnlyLinkingChangesBanks ==
  user_banks' # user_banks =>
    /\ link.pc \in {"insert", "delete"}
    /\ link'.status = 200

\* GET and POST /transactions read exactly the user's connected banks.
TransactionsReadConnected ==
  (request.pc = "banksQuery" /\ request'.pc # "banksQuery"
     /\ request'.response.status # 500) =>
    ResultRows(request'.banksResult) = ConnectedBanks(user_banks, request.user_id)

\* The endpoint, when its banks query succeeds, reads exactly the user's
\* connected banks.
ReadsConnected(endpoint) ==
  (retrieval.endpoint = endpoint /\ retrieval.pc = "banksQuery"
     /\ retrieval'.pc # "banksQuery" /\ retrieval'.status # 500) =>
    ResultRows(retrieval'.banksResult) = ConnectedBanks(user_banks, retrieval.user_id)

\* A retrieval that answers 200 called the provider for every bank it read.
ConsultsEveryBankRead ==
  (retrieval'.pc = "answered" /\ retrieval'.status = 200) =>
    retrieval'.bank = Len(retrieval'.banksResult)

\* The part of C21 that concerns the endpoints reading user_banks.
UserBanksReadersSeeConnected ==
  [][/\ ExchangeConnects
     /\ DeleteDisconnects
     /\ OnlyLinkingChangesBanks
     /\ TransactionsReadConnected
     /\ ReadsConnected("accounts")
     /\ ReadsConnected("holdings")
     /\ ConsultsEveryBankRead]_vars

\* C21: a successful POST /exchange_public_token leaves one user_banks row per
\* (user_id, item_id) holding the latest access token, only a successful
\* DELETE /banks/:bankId removes it, and every banks query of GET
\* /transactions, /accounts, /holdings and /liabilities that succeeds in
\* between returns exactly the user's rows of user_banks, each of which the
\* endpoint then hands to the provider.
C21_ConnectedBanksVisible ==
  [][/\ ExchangeConnects
     /\ DeleteDisconnects
     /\ OnlyLinkingChangesBanks
     /\ TransactionsReadConnected
     /\ \A endpoint \in Endpoints : ReadsConnected(endpoint)
     /\ ConsultsEveryBankRead]_vars

\* A bank the latest exchange connected is in user_banks while GET
\* /liabilities answers 200 without it.
LiabilitiesMissConnectedBank ==
  /\ link.kind = "exchange" /\ link.pc = "answered" /\ link.status = 200
  /\ retrieval.endpoint = "liabilities"
  /\ retrieval.pc = "answered" /\ retrieval.status = 200
  /\ \E r \in ConnectedBanks(user_banks, retrieval.user_id) :
       /\ r.item_id = link.itemId
       /\ r \notin ResultRows(retrieval.banksResult)

====
